---- MODULE Spec2Model ----
(***************************************************************************)
(* A model of the peer-session orchestration of the P2P chat application:  *)
(* initiator election, the dual-path message layer (MessageHandler,        *)
(* WebRTCHandler.sendMessage, FirebaseHandler relay), the chat session     *)
(* manager (WebRTCHandler) with its join/retry protocol, the group call    *)
(* mesh (GroupCallHandler), the reconnection manager (ReconnectionManager) *)
(* and the grace period and inactivity pause of a session.                 *)
(*                                                                         *)
(* Each component has its own specification over its own variables; the   *)
(* variables of the other components are held at their idle values.        *)
(***************************************************************************)
EXTENDS Integers, Sequences, FiniteSets, TLC

VARIABLES
    \* ---- initiator election (the five places that decide who opens) ----
    elSelf,         \* id of one participant of the pair under election
    elPeer,         \* id of the other participant
    elDecided       \* site -> <<decision at elSelf, decision at elPeer>>, for sites run

electVars == <<elSelf, elPeer, elDecided>>

VARIABLES
    \* ---- dual-path message layer ----
    inRoom,             \* client -> is the client in the room (app.roomId, firebase roomRef)
    userEpoch,          \* client -> how many identities generateUserId has issued to it
    mhMessages,         \* client -> ids held by MessageHandler.messages
    recv,               \* client -> id -> [calls, trues, cbs]: receiveMessage calls,
                        \*   calls that returned true, message-callback invocations
    sent,               \* id -> what sendMessage did with it (ids are indices)
    relay,              \* the room's `messages` list at the relay, in push-key order
    fbCursor,           \* client -> last relay key its child_added listener was handed
    processedMessages,  \* client -> keys its listener has processed, in insertion order
    dcOpen,             \* client -> peers with an open channel in its dataChannels
    wire,               \* <<from, to, id>> sent on a data channel and not yet received
    fbOnline,           \* client -> FirebaseHandler.isConnected
    messageQueue,       \* client -> FirebaseHandler.messageQueue
    redelivered,        \* repeated deliveries injected so far
    rejoins             \* joinRoom calls after the first, over all clients

msgVars == <<inRoom, userEpoch, mhMessages, recv, sent, relay, fbCursor,
             processedMessages, dcOpen, wire, fbOnline, messageQueue, redelivered,
             rejoins>>

VARIABLES
    \* ---- group call ----
    gcInitiator,        \* the user that started the call (0: no call started)
    gcInvited,          \* the users the initiator selected
    gcState,            \* user -> "idle", "accepting" (awaiting getUserMedia), "inCall"
    gcLoop,             \* user -> participants its accept loop has still to visit
    callConnections,    \* user -> peer -> state of the call connection it holds for it
    gcNet               \* <<from, to>> -> group-call messages in flight, in order

callVars == <<gcInitiator, gcInvited, gcState, gcLoop, callConnections, gcNet>>

VARIABLES
    \* ---- chat sessions between two users (WebRTCHandler and the retry loop) ----
    appPeers,           \* user -> is the other user in P2PChatApp.peers
    joins,              \* user -> peer-joined notifications it has been given
    loops,              \* user -> the running establishConnectionWithRetry calls
    peers,              \* user -> the connection registered for the other user
    created,            \* user -> connections it has created for the other user
    openPcs,            \* user -> of those, how many are not closed
    retired,            \* user -> of those, how many have been closed
    dataChannels,       \* user -> generation of the connection whose open channel is
                        \*   registered (0: none)
    closeEvt,           \* user -> a close event of a retired channel is still to fire
    pendingCandidates,  \* user -> candidates buffered for the other user
    candLog,            \* user -> candidate received under the registered connection ->
                        \*   times it was applied to it, and whether it was buffered
    busy,               \* user -> the handleSignal call awaiting setRemoteDescription
    mailbox,            \* user -> signals waiting for it at the relay, in push order
    discCalls,          \* user -> invocations of the peer-disconnected callback
    faults,             \* transport failures and peer-left notifications so far
    pcCap               \* connections a user may create in this behaviour

chatVars == <<appPeers, joins, loops, peers, created, openPcs, retired, dataChannels,
              closeEvt, pendingCandidates, candLog, busy, mailbox, discCalls,
              faults, pcCap>>

VARIABLES
    \* ---- reconnection manager of one participant (ReconnectionManager) ----
    reconnectionState,      \* "idle", "detecting", "reconnecting", "connected", "failed"
    reconnectionAttempts,   \* the attempt counter
    reconnectionDelay,      \* the backoff delay, in milliseconds
    needsFirebaseReconnect, \* set by handleConnectionLoss
    needsWebRTCReconnect,   \* set by handleConnectionLoss
    lostPeers,              \* the peers recorded as lost
    recordedLost,           \* the peers the last detection recorded (kept after clear())
    detectionTimer,         \* seconds left on the 5 s detection timer (-1: not pending)
    reconnectionTimers,     \* the backoff timers still pending, oldest first: seconds
                            \*   left, failures counted when set, and whether
                            \*   this.reconnectionTimer still holds its handle
    healthTimer,            \* seconds until the next periodic health check
    rmPhase,                \* where the running attempt is, and seconds left on its wait
    rmFirebase,             \* firebaseHandler.isConnected
    rmRoomRef,              \* firebaseHandler.roomRef !== null
    rmWritable,             \* the relay accepts the presence write of joinRoom
    rmNetOk,                \* peer-to-peer transports can be established
    rmConnected,            \* peers with an open data channel
    rmRejoined,             \* presence was written again since the last loss
    rmOthersHealthy,        \* the smaller-id peer still has sessions to other peers
    rmLosses,               \* connection losses so far
    rmManuals               \* manual reconnects so far

rmVars == <<reconnectionState, reconnectionAttempts, reconnectionDelay,
            needsFirebaseReconnect, needsWebRTCReconnect, lostPeers, recordedLost,
            detectionTimer, reconnectionTimers, healthTimer, rmPhase, rmFirebase,
            rmRoomRef, rmWritable, rmNetOk, rmConnected, rmRejoined, rmOthersHealthy,
            rmLosses, rmManuals>>

VARIABLES
    \* ---- transport grace period and inactivity pause of one participant ----
    iceState,           \* peer -> state of the transport of its session
    livePcs,            \* peers registered in WebRTCHandler.peers
    channelState,       \* peer -> readyState of its data channel ("none": no entry)
    disconnectTimeouts, \* peer -> its grace timer: ticks left and ticks it was set for
    inactivityPaused,   \* WebRTCHandler.inactivityPaused
    pausedChannels,     \* peers held in WebRTCHandler.pausedChannels
    isPageVisible,      \* P2PChatApp.isPageVisible
    hiddenTicks,        \* ticks since the page was hidden
    disconnectTimer,    \* ticks left on the app's 30 s pause timer (-1: not pending)
    pausedState,        \* P2PChatApp.pausedState is set
    inputDisabled,      \* the message input is disabled
    peerDisconnects,    \* peer -> invocations of the peer-disconnected callback
    rebuilds,           \* peer -> data channels created by resumeDataChannels
    resumeThrew,        \* resumeConnections ended with an exception
    hides               \* times the page was hidden

liveVars == <<iceState, livePcs, channelState, disconnectTimeouts, inactivityPaused,
              pausedChannels, isPageVisible, hiddenTicks, disconnectTimer,
              pausedState, inputDisabled, peerDisconnects, rebuilds, resumeThrew,
              hides>>

\* One participant's two call handlers (CallHandler, GroupCallHandler) beside
\* the chat sessions of WebRTCHandler.  currentCall is the 1:1 call, NoCall or
\* [peerId, isCaller, isActive]; currentGroupCall is 0 or the initiator's id;
\* groupConnections are the peers with a call connection of the group call;
\* senders are the peers whose chat connection carries media tracks of the 1:1
\* call; slotPeers, slotChannels and slotConnected are the chat sessions
\* (WebRTCHandler.peers, dataChannels and the app's connected-peer set);
\* lastResponse is the accept / reject answer sent last (<<>> before any).
VARIABLES
    currentCall, currentGroupCall, groupConnections, senders,
    slotPeers, slotChannels, slotConnected, lastResponse

slotVars == <<currentCall, currentGroupCall, groupConnections, senders,
              slotPeers, slotChannels, slotConnected, lastResponse>>

\* The per-peer tables of one WebRTCHandler: tblPeers (this.peers, by the state
\* of the connection: "none", "stable" without remote description,
\* "have-local-offer", "remote" with remote description), tblChannels
\* (dataChannels), tblPending (number of buffered candidates), tblTimeouts
\* (disconnectTimeouts), tblInitiator (initiatorMap: "unset", "true", "false"),
\* tblConnected (connectedPeers) and tblLast, the operation that ran last.
VARIABLES
    tblPeers, tblChannels, tblPending, tblTimeouts, tblInitiator, tblConnected,
    tblLast

tblVars == <<tblPeers, tblChannels, tblPending, tblTimeouts, tblInitiator,
             tblConnected, tblLast>>

\* Dispatch of the payloads received on a data channel (WebRTCHandler
\* onmessage, the app's onMessage callback): dispMessages are the ids held by
\* MessageHandler.messages (0 stands for a payload without id), dispCallbacks
\* counts the chat messages handed to the message callbacks, dispStatus is the
\* displayed connection status, dispRouted the handler that took the last
\* payload and dispLast that payload.
VARIABLES
    dispMessages, dispCallbacks, dispStatus, dispRouted, dispLast

dispVars == <<dispMessages, dispCallbacks, dispStatus, dispRouted, dispLast>>

\* Manual reconnection with a fresh identity (P2PChatApp.manualReconnect) seen
\* at the relay: mrUsers are the identities with a presence record, mrSignals
\* the identities with a signal mailbox, mrOthers whether another user is
\* present in the room, mrUserId the app's identity (identities are numbered
\* in the order generateUserId issues them), mrOldUserId the identity kept for
\* the cleanup, mrStep the position inside manualReconnect and mrHasCleanup
\* whether the loaded CallHandler defines cleanup().
VARIABLES
    mrUsers, mrSignals, mrOthers, mrUserId, mrOldUserId, mrStep, mrHasCleanup

idVars == <<mrUsers, mrSignals, mrOthers, mrUserId, mrOldUserId, mrStep,
            mrHasCleanup>>

\* The signal mailbox of one identity and its listener
\* (FirebaseHandler.listenForSignals): sigBox gives the state of each entry at
\* the relay ("none" not yet sent, "stored", "removing" once remove() was
\* issued, "gone"), processedSignals the ids the handler remembers, in insertion
\* order, sigNotified the entries the registered listener was notified of,
\* sigHanded how often each entry went to the signal callback, and sigRepeats /
\* sigRejoins count repeated notifications and re-registrations of the listener.
VARIABLES
    sigBox, processedSignals, sigNotified, sigHanded, sigRepeats, sigRejoins

sigVars == <<sigBox, processedSignals, sigNotified, sigHanded, sigRepeats, sigRejoins>>

\* The group call of one participant through its life (GroupCallHandler):
\* lcCall is currentGroupCall (id 0: null), lcPending the startGroupCall /
\* acceptGroupCall invocations waiting for getUserMedia, lcConnections the keys
\* of callConnections, lcParticipants the keys of the participants map (peers
\* whose stream arrived), lcTimers the pending setTimeout callbacks, each with
\* the id of the call that was current when it was set, lcReplies the accept /
\* reject responses sent, lcInvited the calls an invite was received for,
\* lcStarts the calls started locally and lcLast the handler that ran last.
VARIABLES
    lcCall, lcPending, lcConnections, lcParticipants, lcTimers, lcReplies,
    lcInvited, lcStarts, lcLast

lifeVars == <<lcCall, lcPending, lcConnections, lcParticipants, lcTimers, lcReplies,
              lcInvited, lcStarts, lcLast>>

vars == <<electVars, msgVars, callVars, chatVars, rmVars, liveVars, slotVars, tblVars, dispVars, idVars, sigVars, lifeVars>>

(***************************************************************************)
(* Idle values: what a component's variables hold in the specifications    *)
(* of the other components.                                                *)
(***************************************************************************)
ElectIdle ==
    /\ elSelf = <<>>
    /\ elPeer = <<>>
    /\ elDecided = <<>>

CallIdle ==
    /\ gcInitiator = 0
    /\ gcInvited = {}
    /\ gcState = <<>>
    /\ gcLoop = <<>>
    /\ callConnections = <<>>
    /\ gcNet = <<>>

ChatIdle ==
    /\ appPeers = <<>>
    /\ joins = <<>>
    /\ loops = <<>>
    /\ peers = <<>>
    /\ created = <<>>
    /\ openPcs = <<>>
    /\ retired = <<>>
    /\ dataChannels = <<>>
    /\ closeEvt = <<>>
    /\ pendingCandidates = <<>>
    /\ candLog = <<>>
    /\ busy = <<>>
    /\ mailbox = <<>>
    /\ discCalls = <<>>
    /\ faults = 0
    /\ pcCap = 0

RmIdle ==
    /\ reconnectionState = ""
    /\ reconnectionAttempts = 0
    /\ reconnectionDelay = 0
    /\ needsFirebaseReconnect = FALSE
    /\ needsWebRTCReconnect = FALSE
    /\ lostPeers = {}
    /\ recordedLost = {}
    /\ detectionTimer = -1
    /\ reconnectionTimers = <<>>
    /\ healthTimer = -1
    /\ rmPhase = <<>>
    /\ rmFirebase = FALSE
    /\ rmRoomRef = FALSE
    /\ rmWritable = FALSE
    /\ rmNetOk = FALSE
    /\ rmConnected = {}
    /\ rmRejoined = FALSE
    /\ rmOthersHealthy = FALSE
    /\ rmLosses = 0
    /\ rmManuals = 0

LiveIdle ==
    /\ iceState = <<>>
    /\ livePcs = {}
    /\ channelState = <<>>
    /\ disconnectTimeouts = <<>>
    /\ inactivityPaused = FALSE
    /\ pausedChannels = {}
    /\ isPageVisible = FALSE
    /\ hiddenTicks = 0
    /\ disconnectTimer = -1
    /\ pausedState = FALSE
    /\ inputDisabled = FALSE
    /\ peerDisconnects = <<>>
    /\ rebuilds = <<>>
    /\ resumeThrew = FALSE
    /\ hides = 0

SlotIdle ==
    /\ currentCall = <<>>
    /\ currentGroupCall = 0
    /\ groupConnections = {}
    /\ senders = {}
    /\ slotPeers = {}
    /\ slotChannels = {}
    /\ slotConnected = {}
    /\ lastResponse = <<>>

TblIdle ==
    /\ tblPeers = <<>>
    /\ tblChannels = {}
    /\ tblPending = <<>>
    /\ tblTimeouts = {}
    /\ tblInitiator = <<>>
    /\ tblConnected = {}
    /\ tblLast = <<>>

DispIdle ==
    /\ dispMessages = {}
    /\ dispCallbacks = 0
    /\ dispStatus = ""
    /\ dispRouted = ""
    /\ dispLast = <<>>

IdIdle ==
    /\ mrUsers = {}
    /\ mrSignals = {}
    /\ mrOthers = FALSE
    /\ mrUserId = 0
    /\ mrOldUserId = 0
    /\ mrStep = ""
    /\ mrHasCleanup = FALSE

SigIdle ==
    /\ sigBox = <<>>
    /\ processedSignals = <<>>
    /\ sigNotified = {}
    /\ sigHanded = <<>>
    /\ sigRepeats = 0
    /\ sigRejoins = 0

LifeIdle ==
    /\ lcCall = <<>>
    /\ lcPending = {}
    /\ lcConnections = {}
    /\ lcParticipants = {}
    /\ lcTimers = {}
    /\ lcReplies = {}
    /\ lcInvited = {}
    /\ lcStarts = 0
    /\ lcLast = <<>>

MsgIdle ==
    /\ inRoom = <<>>
    /\ userEpoch = <<>>
    /\ mhMessages = <<>>
    /\ recv = <<>>
    /\ sent = <<>>
    /\ relay = <<>>
    /\ fbCursor = <<>>
    /\ processedMessages = <<>>
    /\ dcOpen = <<>>
    /\ wire = {}
    /\ fbOnline = <<>>
    /\ messageQueue = <<>>
    /\ redelivered = 0
    /\ rejoins = 0

(***************************************************************************)
(* Participant ids.  generateUserId() returns 'user-' followed by up to 9  *)
(* base-36 characters; ids are JavaScript strings and `a < b` compares     *)
(* them code unit by code unit, a proper prefix being the smaller.  An id  *)
(* is modelled as the sequence of the code units after the common         *)
(* 'user-' prefix, over a small alphabet.                                  *)
(***************************************************************************)
AlphabetSize == 3
MaxIdLen == 2

RECURSIVE SeqsUpTo(_, _)
SeqsUpTo(S, n) ==
    IF n = 0 THEN {<<>>}
    ELSE LET shorter == SeqsUpTo(S, n - 1)
         IN shorter \cup {Append(s, c) : s \in {t \in shorter : Len(t) = n - 1}, c \in S}

generateUserId == SeqsUpTo(1..AlphabetSize, MaxIdLen) \ {<<>>}

\* A comparison that looks at the first code unit only.
StrLessFirstUnit(a, b) ==
    IF a = <<>> THEN b # <<>>
    ELSE IF b = <<>> THEN FALSE
    ELSE Head(a) < Head(b)

\* JavaScript's `a < b` on strings.
RECURSIVE StrLess(_, _)
StrLess(a, b) ==
    IF a = <<>> THEN b # <<>>
    ELSE IF b = <<>> THEN FALSE
    ELSE IF Head(a) # Head(b) THEN Head(a) < Head(b)
    ELSE StrLess(Tail(a), Tail(b))

\* `this.userId < peerId`, the rule written out at each place a session is opened.
shouldInitiate(selfId, peerId) == StrLess(selfId, peerId)

(***************************************************************************)
(* Election sites.  Each evaluates the rule once on each side of the pair. *)
(***************************************************************************)
Sites == {"chatJoin", "reconnect", "callAccept", "callAcceptReceived", "participantJoined"}

JoinShouldInitiate(selfId, peerId) == shouldInitiate(selfId, peerId)
ReconnectShouldInitiate(selfId, peerId) == shouldInitiate(selfId, peerId)
AcceptShouldInitiate(selfId, peerId) == shouldInitiate(selfId, peerId)
AcceptReceivedShouldInitiate(selfId, peerId) == shouldInitiate(selfId, peerId)
ParticipantJoinedShouldInitiate(selfId, peerId) == shouldInitiate(selfId, peerId)

ElectInit ==
    /\ MsgIdle
    /\ CallIdle
    /\ ChatIdle
    /\ RmIdle
    /\ LiveIdle
    /\ SlotIdle
    /\ TblIdle
    /\ DispIdle
    /\ IdIdle
    /\ SigIdle
    /\ LifeIdle
    /\ elSelf \in generateUserId
    /\ elPeer \in generateUserId \ {elSelf}
    /\ elDecided = [s \in {} |-> <<FALSE, FALSE>>]

Decide(site, dSelf, dPeer) ==
    /\ site \notin DOMAIN elDecided
    /\ elDecided' = [s \in DOMAIN elDecided \cup {site} |->
                        IF s = site THEN <<dSelf, dPeer>> ELSE elDecided[s]]
    /\ UNCHANGED <<elSelf, elPeer>>
    /\ UNCHANGED <<msgVars, callVars, chatVars, rmVars, liveVars, slotVars, tblVars, dispVars, idVars, sigVars, lifeVars>>

ElectChatJoin ==
    Decide("chatJoin", JoinShouldInitiate(elSelf, elPeer), JoinShouldInitiate(elPeer, elSelf))

ElectReconnect ==
    Decide("reconnect", ReconnectShouldInitiate(elSelf, elPeer),
           ReconnectShouldInitiate(elPeer, elSelf))

ElectCallAccept ==
    Decide("callAccept", AcceptShouldInitiate(elSelf, elPeer),
           AcceptShouldInitiate(elPeer, elSelf))

ElectCallAcceptReceived ==
    Decide("callAcceptReceived", AcceptReceivedShouldInitiate(elSelf, elPeer),
           AcceptReceivedShouldInitiate(elPeer, elSelf))

ElectParticipantJoined ==
    Decide("participantJoined", ParticipantJoinedShouldInitiate(elSelf, elPeer),
           ParticipantJoinedShouldInitiate(elPeer, elSelf))

ElectNext ==
    \/ ElectChatJoin
    \/ ElectReconnect
    \/ ElectCallAccept
    \/ ElectCallAcceptReceived
    \/ ElectParticipantJoined

SpecElect == ElectInit /\ [][ElectNext]_vars

\* C2: at every place a session is opened, for a pair of distinct ids exactly one
\* side decides to initiate, and it is the side with the smaller id; the five places
\* agree with each other.
ElectionAntisymmetric ==
    /\ elSelf # elPeer
    /\ \A s \in DOMAIN elDecided :
          /\ elDecided[s][1] # elDecided[s][2]
          /\ elDecided[s][1] = StrLess(elSelf, elPeer)
    /\ \A s, t \in DOMAIN elDecided : elDecided[s] = elDecided[t]

\* Every site has decided for a pair whose ids share their first code unit and
\* differ later (one a proper prefix of the other, or differing in the second unit).
ElectionAllSitesDecided ==
    /\ DOMAIN elDecided = Sites
    /\ Head(elSelf) = Head(elPeer)
    /\ elSelf # elPeer

(***************************************************************************)
(* Dual-path message layer.                                                *)
(*                                                                         *)
(* Clients are browser tabs, each with one P2PChatApp, one MessageHandler  *)
(* (kept for the life of the page), one FirebaseHandler and, while in the  *)
(* room, one WebRTCHandler.  A client's user id is <<client, epoch>>:      *)
(* manualReconnect issues a fresh one.  Message ids are unique             *)
(* (generateMessageId: time stamp plus random suffix) and are modelled as  *)
(* the index of the message in `sent`.                                     *)
(***************************************************************************)
Clients == {"c1", "c2", "c3"}
Senders == {"c1"}           \* the clients that send chat messages
Roamers == {"c1", "c2"}     \* the clients that leave, rejoin or reconnect
Paths == {"webrtc", "firebase"}

MaxMsgs == 1            \* messages sent in a behaviour
MaxRedeliveries == 2    \* repeated deliveries injected in a behaviour
MaxRejoins == 1         \* times the room is joined again in a behaviour

ProcessedCap == 200     \* processedMessages.size > 200 starts the pruning
ProcessedDrop == 100    \* ... of the 100 oldest keys

UserIdOf(c) == <<c, userEpoch[c]>>

NoRecv == [calls |-> 0, trues |-> 0, cbs |-> 0, paths |-> {}]

MsgIds == 1..Len(sent)

MsgInit ==
    /\ ElectIdle
    /\ CallIdle
    /\ ChatIdle
    /\ RmIdle
    /\ LiveIdle
    /\ SlotIdle
    /\ TblIdle
    /\ DispIdle
    /\ IdIdle
    /\ SigIdle
    /\ LifeIdle
    /\ inRoom = [c \in Clients |-> TRUE]
    /\ userEpoch = [c \in Clients |-> 1]
    /\ mhMessages = [c \in Clients |-> {}]
    /\ recv = [c \in Clients |-> [i \in 1..MaxMsgs |-> NoRecv]]
    /\ sent = <<>>
    /\ relay = <<>>
    /\ fbCursor = [c \in Clients |-> 0]
    /\ processedMessages = [c \in Clients |-> <<>>]
    /\ dcOpen = [c \in Clients |-> {}]
    /\ wire = {}
    /\ fbOnline = [c \in Clients |-> TRUE]
    /\ messageQueue = [c \in Clients |-> <<>>]
    /\ redelivered = 0
    /\ rejoins = 0

\* A receiveMessage that never finds the id stored.
IsDuplicateNever(c, id) == FALSE

\* MessageHandler.receiveMessage: `this.messages.has(message.id)`.
IsDuplicate(c, id) == id \in mhMessages[c]

\* MessageHandler.receiveMessage(message, source) at client c: the new values of
\* mhMessages and recv.  A duplicate returns false and calls nothing; otherwise the
\* id is stored, every message callback is invoked and true is returned.
receiveMessage(c, id, source) ==
    IF IsDuplicate(c, id)
    THEN /\ recv' = [recv EXCEPT ![c][id].calls = @ + 1,
                                 ![c][id].paths = @ \cup {source}]
         /\ UNCHANGED mhMessages
    ELSE /\ mhMessages' = [mhMessages EXCEPT ![c] = @ \cup {id}]
         /\ recv' = [recv EXCEPT ![c][id] =
                        [calls |-> @.calls + 1, trues |-> @.trues + 1,
                         cbs |-> @.cbs + 1, paths |-> @.paths \cup {source}]]

\* WebRTCHandler.isConnected: getConnectedPeersCount() > 0.
isConnected(c) == dcOpen[c] # {}

\* A sendMessage that uses the relay whatever the direct path did.
UseRelayAlways(messageSent) == TRUE

\* MessageHandler.sendMessage: `if (!messageSent && firebaseHandler)`.
UseRelay(messageSent) == ~messageSent

\* The subsequence of q at the indices in keep, order preserved.
RECURSIVE SelectIdx(_, _, _)
SelectIdx(q, keep, i) ==
    IF i > Len(q) THEN <<>>
    ELSE IF i \in keep THEN <<q[i]>> \o SelectIdx(q, keep, i + 1)
    ELSE SelectIdx(q, keep, i + 1)

\* What messagesRef.push stores for message id: the message keeps the senderId it
\* was created with.
RelayEntry(id) == [id |-> id, senderId |-> sent[id].senderId]

\* MessageHandler.sendMessage(text, webrtcHandler, firebaseHandler, nickname) at c.
\* WebRTCHandler.sendMessage walks the open channels: on each one the send is taken,
\* skipped because the channel's buffer is over 16 MB (full), or throws (thrown: the
\* channel is dropped from dataChannels).  FirebaseHandler.sendMessage queues the
\* message and reports false when offline or when the push fails (pushOk = FALSE).
SendMessage(c) ==
    /\ inRoom[c]
    /\ Len(sent) < MaxMsgs
    /\ \E full \in SUBSET dcOpen[c], pushOk \in BOOLEAN :
       \E thrown \in SUBSET (dcOpen[c] \ full) :
          LET id == Len(sent) + 1
              taken == dcOpen[c] \ (full \cup thrown)
              viaWebrtc == isConnected(c) /\ taken # {}
              tryRelay == UseRelay(viaWebrtc)
              viaRelay == tryRelay /\ fbOnline[c] /\ pushOk
              senderId == UserIdOf(c)
          IN /\ (~tryRelay \/ ~fbOnline[c]) => pushOk
             /\ mhMessages' = [mhMessages EXCEPT ![c] = @ \cup {id}]
             /\ wire' = wire \cup {<<c, d, id>> : d \in taken}
             /\ dcOpen' = [dcOpen EXCEPT ![c] = @ \ thrown]
             /\ sent' = Append(sent, [sender |-> c, senderId |-> senderId,
                                      ok |-> viaWebrtc \/ viaRelay,
                                      openAtSend |-> dcOpen[c], direct |-> taken])
             /\ relay' = IF viaRelay
                         THEN Append(relay, [id |-> id, senderId |-> senderId])
                         ELSE relay
             /\ messageQueue' = IF tryRelay /\ ~viaRelay
                                THEN [messageQueue EXCEPT ![c] = Append(@, id)]
                                ELSE messageQueue
    /\ UNCHANGED <<inRoom, userEpoch, recv, fbCursor, processedMessages, fbOnline,
                   redelivered, rejoins>>
    /\ UNCHANGED <<electVars, callVars, chatVars, rmVars, liveVars, slotVars, tblVars, dispVars, idVars, sigVars, lifeVars>>

\* dataChannel.onmessage at `to` for a chat message (one without `type`): the
\* handler P2PChatApp registered ends in messageHandler.receiveMessage(message,
\* 'webrtc').
WebrtcDeliver(from, to, id) ==
    /\ <<from, to, id>> \in wire
    /\ wire' = wire \ {<<from, to, id>>}
    /\ receiveMessage(to, id, "webrtc")
    /\ UNCHANGED <<inRoom, userEpoch, sent, relay, fbCursor, processedMessages, dcOpen,
                   fbOnline, messageQueue, redelivered,
             rejoins>>
    /\ UNCHANGED <<electVars, callVars, chatVars, rmVars, liveVars, slotVars, tblVars, dispVars, idVars, sigVars, lifeVars>>

\* FirebaseHandler.listenForMessages: the child_added callback for the next key.
\* Keys already processed and messages whose senderId is the listener's own user id
\* are skipped; otherwise the key is recorded, the message goes to
\* messageHandler.receiveMessage(message, 'firebase') and the record is pruned.
FirebaseChildAdded(c) ==
    /\ inRoom[c]
    /\ fbCursor[c] < Len(relay)
    /\ LET k == fbCursor[c] + 1
           m == relay[k]
           seen == {processedMessages[c][i] : i \in DOMAIN processedMessages[c]}
           added == Append(processedMessages[c], k)
       IN /\ fbCursor' = [fbCursor EXCEPT ![c] = k]
          /\ IF k \in seen \/ m.senderId = UserIdOf(c)
             THEN UNCHANGED <<processedMessages, mhMessages, recv>>
             ELSE /\ processedMessages' = [processedMessages EXCEPT ![c] =
                        IF Len(added) > ProcessedCap
                        THEN SubSeq(added, ProcessedDrop + 1, Len(added))
                        ELSE added]
                  /\ receiveMessage(c, m.id, "firebase")
    /\ UNCHANGED <<inRoom, userEpoch, sent, relay, dcOpen, wire, fbOnline, messageQueue,
                   redelivered, rejoins>>
    /\ UNCHANGED <<electVars, callVars, chatVars, rmVars, liveVars, slotVars, tblVars, dispVars, idVars, sigVars, lifeVars>>

\* setupDataChannel: dataChannel.onopen at c for the channel to d.
ChannelOpen(c, d) ==
    /\ c # d
    /\ inRoom[c] /\ inRoom[d]
    /\ d \notin dcOpen[c]
    /\ dcOpen' = [dcOpen EXCEPT ![c] = @ \cup {d}]
    /\ UNCHANGED <<inRoom, userEpoch, mhMessages, recv, sent, relay, fbCursor,
                   processedMessages, wire, fbOnline, messageQueue, redelivered,
             rejoins>>
    /\ UNCHANGED <<electVars, callVars, chatVars, rmVars, liveVars, slotVars, tblVars, dispVars, idVars, sigVars, lifeVars>>

\* setupDataChannel: dataChannel.onclose at c for the channel to d.
ChannelClose(c, d) ==
    /\ d \in dcOpen[c]
    /\ dcOpen' = [dcOpen EXCEPT ![c] = @ \ {d}]
    /\ UNCHANGED <<inRoom, userEpoch, mhMessages, recv, sent, relay, fbCursor,
                   processedMessages, wire, fbOnline, messageQueue, redelivered,
             rejoins>>
    /\ UNCHANGED <<electVars, callVars, chatVars, rmVars, liveVars, slotVars, tblVars, dispVars, idVars, sigVars, lifeVars>>

\* setupConnectionMonitoring: `.info/connected` becomes false.
FirebaseOffline(c) ==
    /\ fbOnline[c]
    /\ fbOnline' = [fbOnline EXCEPT ![c] = FALSE]
    /\ UNCHANGED <<inRoom, userEpoch, mhMessages, recv, sent, relay, fbCursor,
                   processedMessages, dcOpen, wire, messageQueue, redelivered,
             rejoins>>
    /\ UNCHANGED <<electVars, callVars, chatVars, rmVars, liveVars, slotVars, tblVars, dispVars, idVars, sigVars, lifeVars>>

\* setupConnectionMonitoring: `.info/connected` becomes true; a non-empty queue is
\* flushed (flushMessageQueue): each queued message goes through
\* FirebaseHandler.sendMessage again, which drops it when the handler is in no room
\* and queues it again when its push fails (the indices in failed).
FirebaseOnline(c) ==
    /\ ~fbOnline[c]
    /\ fbOnline' = [fbOnline EXCEPT ![c] = TRUE]
    /\ \E failed \in SUBSET DOMAIN messageQueue[c] :
          LET q == messageQueue[c]
              pushed == SelectIdx(q, DOMAIN q \ failed, 1)
          IN /\ ~inRoom[c] => failed = {}
             /\ relay' = IF inRoom[c]
                         THEN relay \o [i \in DOMAIN pushed |-> RelayEntry(pushed[i])]
                         ELSE relay
             /\ messageQueue' = [messageQueue EXCEPT ![c] = SelectIdx(q, failed, 1)]
    /\ UNCHANGED <<inRoom, userEpoch, mhMessages, recv, sent, fbCursor,
                   processedMessages, dcOpen, wire, redelivered, rejoins>>
    /\ UNCHANGED <<electVars, callVars, chatVars, rmVars, liveVars, slotVars, tblVars, dispVars, idVars, sigVars, lifeVars>>

\* The data channels and the relay connection of a client are read only when it
\* sends, so their events are followed for the senders.
MsgNext ==
    \/ \E c \in Senders : SendMessage(c)
    \/ \E c, d \in Clients, id \in MsgIds : WebrtcDeliver(c, d, id)
    \/ \E c \in Clients : FirebaseChildAdded(c)
    \/ \E c \in Senders, d \in Clients : ChannelOpen(c, d)
    \/ \E c \in Senders, d \in Clients : ChannelClose(c, d)
    \/ \E c \in Senders : FirebaseOffline(c)
    \/ \E c \in Senders : FirebaseOnline(c)

SpecMsg == MsgInit /\ [][MsgNext]_vars

(***************************************************************************)
(* Repeated deliveries and rejoining.                                      *)
(***************************************************************************)

\* A message carrying an id already sent reaches client c once more: over a data
\* channel (onmessage hands every message without `type` to receiveMessage) or as
\* one more child of the relay's list (the listener deduplicates by push key, not
\* by message id).
Redeliver(c, id, source) ==
    /\ inRoom[c]
    /\ id \in MsgIds
    /\ redelivered < MaxRedeliveries
    /\ redelivered' = redelivered + 1
    /\ receiveMessage(c, id, source)
    /\ UNCHANGED <<inRoom, userEpoch, sent, relay, fbCursor, processedMessages, dcOpen,
                   wire, fbOnline, messageQueue, rejoins>>
    /\ UNCHANGED <<electVars, callVars, chatVars, rmVars, liveVars, slotVars, tblVars, dispVars, idVars, sigVars, lifeVars>>

\* WebRTCHandler.disconnect at c: every connection is closed and both maps are
\* cleared; what was in flight towards c is not delivered to the closed channels.
disconnect(c) ==
    /\ dcOpen' = [dcOpen EXCEPT ![c] = {}]
    /\ wire' = {w \in wire : w[2] # c}

\* P2PChatApp.manualReconnect at c: the WebRTC handler is disconnected and replaced,
\* the relay room is left and joined again under a new user id, and joinRoom's
\* listenForMessages starts a listener with an empty processed set that is handed
\* the retained messages from the first.  The MessageHandler is kept.
ManualReconnect(c) ==
    /\ inRoom[c]
    /\ rejoins < MaxRejoins
    /\ rejoins' = rejoins + 1
    /\ disconnect(c)
    /\ userEpoch' = [userEpoch EXCEPT ![c] = @ + 1]
    /\ fbCursor' = [fbCursor EXCEPT ![c] = 0]
    /\ processedMessages' = [processedMessages EXCEPT ![c] = <<>>]
    /\ UNCHANGED <<inRoom, mhMessages, recv, sent, relay, fbOnline, messageQueue,
                   redelivered>>
    /\ UNCHANGED <<electVars, callVars, chatVars, rmVars, liveVars, slotVars, tblVars, dispVars, idVars, sigVars, lifeVars>>

\* P2PChatApp.leaveRoom at c: disconnect, FirebaseHandler.leaveRoom (listeners
\* removed, roomRef cleared, the room's messages kept since some exist or users
\* remain) and MessageHandler.clearMessages.
LeaveRoom(c) ==
    /\ inRoom[c]
    /\ disconnect(c)
    /\ inRoom' = [inRoom EXCEPT ![c] = FALSE]
    /\ mhMessages' = [mhMessages EXCEPT ![c] = {}]
    /\ UNCHANGED <<userEpoch, recv, sent, relay, fbCursor, processedMessages, fbOnline,
                   messageQueue, redelivered, rejoins>>
    /\ UNCHANGED <<electVars, callVars, chatVars, rmVars, liveVars, slotVars, tblVars, dispVars, idVars, sigVars, lifeVars>>

\* P2PChatApp.joinRoom at c after a leave: same user id, a new WebRTCHandler, and
\* FirebaseHandler.joinRoom, whose listenForMessages starts from the retained list
\* with an empty processed set.
JoinRoom(c) ==
    /\ ~inRoom[c]
    /\ rejoins < MaxRejoins
    /\ rejoins' = rejoins + 1
    /\ inRoom' = [inRoom EXCEPT ![c] = TRUE]
    /\ fbCursor' = [fbCursor EXCEPT ![c] = 0]
    /\ processedMessages' = [processedMessages EXCEPT ![c] = <<>>]
    /\ UNCHANGED <<userEpoch, mhMessages, recv, sent, relay, dcOpen, wire, fbOnline,
                   messageQueue, redelivered>>
    /\ UNCHANGED <<electVars, callVars, chatVars, rmVars, liveVars, slotVars, tblVars, dispVars, idVars, sigVars, lifeVars>>

\* Deliveries at the MessageHandlers: the room's messages travel by the relay (no
\* data channel opens), senders reconnect, and further deliveries of known ids
\* arrive on either path.
RecvNext ==
    \/ \E c \in Senders : SendMessage(c)
    \/ \E c \in Clients : FirebaseChildAdded(c)
    \/ \E c \in Senders : ManualReconnect(c)
    \/ \E c \in Clients, id \in MsgIds, source \in Paths : Redeliver(c, id, source)

SpecRecv == MsgInit /\ [][RecvNext]_vars

RoomNext ==
    \/ MsgNext
    \/ \E c \in Roamers : ManualReconnect(c)
    \/ \E c \in Roamers : LeaveRoom(c)
    \/ \E c \in Roamers : JoinRoom(c)

SpecRoom == MsgInit /\ [][RoomNext]_vars

(***************************************************************************)
(* Properties of the message layer.                                        *)
(***************************************************************************)
Admitted(c, id) == recv[c][id].cbs

OnRelay(id) == \E k \in DOMAIN relay : relay[k].id = id

Queued(id) == \E c \in Clients : \E i \in DOMAIN messageQueue[c] : messageQueue[c][i] = id

SentReachesEveryone ==
    \A id \in MsgIds : \A c \in Clients \ {sent[id].sender} :
        (sent[id].ok /\ inRoom[c]) =>
            \/ Admitted(c, id) = 1
            \/ \E w \in wire : w[2] = c /\ w[3] = id
            \/ \E k \in DOMAIN relay : k > fbCursor[c] /\ relay[k].id = id
            \/ Queued(id)

\* C8 as stated: a message is on the relay only if no data channel was open at the
\* sender when it was sent.
RelayOnlyIfNoOpenChannel ==
    \A id \in MsgIds : OnRelay(id) => sent[id].openAtSend = {}

\* C8 amended: a message is written to (or queued for) the relay only if the
\* direct send put it on no data channel, because none was open or because every
\* open one was skipped for a full buffer or threw; a message that some channel
\* took is never written to the relay.
RelayOnlyIfDirectTookNone ==
    \A id \in MsgIds : (OnRelay(id) \/ Queued(id)) => sent[id].direct = {}

\* C8 witness: a message is on the relay although a channel was open at the sender
\* when it was sent, the direct send having put it on none.
RelayUsedWithOpenChannel ==
    \E id \in MsgIds : OnRelay(id) /\ sent[id].openAtSend # {} /\ sent[id].direct = {}

\* C9: at every client, the message callbacks are handed each message id at most
\* once over the whole behaviour (joins, leaves and reconnects included).
CallbackAtMostOncePerId ==
    \A c \in Clients : \A id \in MsgIds : Admitted(c, id) <= 1

(***************************************************************************)
(* Group call mesh (GroupCallHandler).                                     *)
(*                                                                         *)
(* The users are in one chat room with a data channel open between every   *)
(* two of them; every group-call message is a broadcast on those channels  *)
(* (webrtcHandler.sendMessage) that the receivers filter by its `to`       *)
(* field, so a message with a `to` is followed to that user only.  A user  *)
(* id is the one-unit string <<u>>.                                        *)
(***************************************************************************)
CallUsers == {1, 2, 3}

maxParticipants == 4

CallUserId(u) == <<u>>

CallPairs == {pr \in CallUsers \X CallUsers : pr[1] # pr[2]}

\* The elements of the set S in ascending order.
RECURSIVE Ascending(_)
Ascending(S) ==
    IF S = {} THEN <<>>
    ELSE LET m == CHOOSE x \in S : \A y \in S : x <= y
         IN <<m>> \o Ascending(S \ {m})

\* The invite's `participants`: Array.from(new Set([initiator, ...selected])).
InviteParticipants == <<gcInitiator>> \o Ascending(gcInvited)

\* webrtcHandler.sendMessage of msg to the users in targets.
Post(net, from, targets, msg) ==
    [pr \in DOMAIN net |->
        IF pr[1] = from /\ pr[2] \in targets THEN Append(net[pr], msg) ELSE net[pr]]

Pop(net, from, to) == [net EXCEPT ![<<from, to>>] = Tail(@)]

Arrives(from, to, type) ==
    /\ from # to
    /\ gcNet[<<from, to>>] # <<>>
    /\ Head(gcNet[<<from, to>>]).type = type

CallInit ==
    /\ ElectIdle
    /\ MsgIdle
    /\ ChatIdle
    /\ RmIdle
    /\ LiveIdle
    /\ SlotIdle
    /\ TblIdle
    /\ DispIdle
    /\ IdIdle
    /\ SigIdle
    /\ LifeIdle
    /\ gcInitiator = 0
    /\ gcInvited = {}
    /\ gcState = [u \in CallUsers |-> "idle"]
    /\ gcLoop = [u \in CallUsers |-> <<>>]
    /\ callConnections = [u \in CallUsers |-> [v \in CallUsers |-> "none"]]
    /\ gcNet = [pr \in CallPairs |-> <<>>]

\* GroupCallHandler.startGroupCall at i with the selected peers: a selection of more
\* than maxParticipants - 1 peers is cut to its first maxParticipants - 1 (which ones
\* depends on the order of the array), the call object is created and one invite per
\* remaining peer is sent.  No connection is opened.
StartGroupCall(i, selected) ==
    /\ gcInitiator = 0
    /\ gcState[i] = "idle"
    /\ selected # {}
    /\ \E kept \in SUBSET selected :
          /\ Cardinality(kept) = IF Cardinality(selected) > maxParticipants - 1
                                  THEN maxParticipants - 1
                                  ELSE Cardinality(selected)
          /\ gcInvited' = kept
          /\ gcNet' = Post(gcNet, i, kept, [type |-> "invite", who |-> i])
    /\ gcInitiator' = i
    /\ gcState' = [gcState EXCEPT ![i] = "inCall"]
    /\ UNCHANGED <<gcLoop, callConnections>>
    /\ UNCHANGED <<electVars, msgVars, chatVars, rmVars, liveVars, slotVars, tblVars, dispVars, idVars, sigVars, lifeVars>>

\* GroupCallHandler.handleGroupCallInvite at u: auto-reject when in a call, else the
\* user accepts (acceptGroupCall starts and awaits getUserMedia) or rejects.
HandleInvite(from, u) ==
    /\ Arrives(from, u, "invite")
    /\ \E accept \in BOOLEAN :
          IF gcState[u] # "idle" \/ ~accept
          THEN /\ gcNet' = Post(Pop(gcNet, from, u), u, CallUsers \ {u},
                                [type |-> "reject", who |-> u])
               /\ UNCHANGED gcState
          ELSE /\ gcNet' = Pop(gcNet, from, u)
               /\ gcState' = [gcState EXCEPT ![u] = "accepting"]
    /\ UNCHANGED <<gcInitiator, gcInvited, gcLoop, callConnections>>
    /\ UNCHANGED <<electVars, msgVars, chatVars, rmVars, liveVars, slotVars, tblVars, dispVars, idVars, sigVars, lifeVars>>

\* GroupCallHandler.acceptGroupCall at u once getUserMedia has resolved: the call
\* object is set, the accept goes to the initiator and participant-joined to every
\* peer; the loop over the invite's participants follows.
AcceptGroupCall(u) ==
    /\ gcState[u] = "accepting"
    /\ gcState' = [gcState EXCEPT ![u] = "inCall"]
    /\ gcNet' = Post(Post(gcNet, u, {gcInitiator}, [type |-> "accept", who |-> u]),
                     u, CallUsers \ {u}, [type |-> "joined", who |-> u])
    /\ gcLoop' = [gcLoop EXCEPT ![u] = SelectSeq(InviteParticipants, LAMBDA p : p # u)]
    /\ UNCHANGED <<gcInitiator, gcInvited, callConnections>>
    /\ UNCHANGED <<electVars, msgVars, chatVars, rmVars, liveVars, slotVars, tblVars, dispVars, idVars, sigVars, lifeVars>>

\* GroupCallHandler.connectToParticipant(peer, true) at u: the new connection is
\* stored for the peer and its offer is sent.  The new values of callConnections
\* and of the network net.
ConnectAndOffer(u, peer, net) ==
    /\ callConnections' = [callConnections EXCEPT ![u][peer] = "have-local-offer"]
    /\ gcNet' = Post(net, u, {peer}, [type |-> "offer", who |-> u])

\* One turn of acceptGroupCall's loop at u (each turn awaits connectToParticipant).
AcceptLoopStep(u) ==
    /\ gcLoop[u] # <<>>
    /\ gcLoop' = [gcLoop EXCEPT ![u] = Tail(@)]
    /\ IF AcceptShouldInitiate(CallUserId(u), CallUserId(Head(gcLoop[u])))
       THEN ConnectAndOffer(u, Head(gcLoop[u]), gcNet)
       ELSE UNCHANGED <<callConnections, gcNet>>
    /\ UNCHANGED <<gcInitiator, gcInvited, gcState>>
    /\ UNCHANGED <<electVars, msgVars, chatVars, rmVars, liveVars, slotVars, tblVars, dispVars, idVars, sigVars, lifeVars>>

\* GroupCallHandler.handleGroupCallAccept at u (the accept's `to`).
HandleGroupCallAccept(from, u) ==
    /\ Arrives(from, u, "accept")
    /\ LET popped == Pop(gcNet, from, u)
           told == IF gcInitiator = u
                   THEN Post(popped, u, CallUsers \ {u}, [type |-> "joined", who |-> from])
                   ELSE popped
       IN IF gcState[u] # "inCall"
          THEN gcNet' = popped /\ UNCHANGED callConnections
          ELSE IF callConnections[u][from] = "none"
                  /\ AcceptReceivedShouldInitiate(CallUserId(u), CallUserId(from))
               THEN ConnectAndOffer(u, from, told)
               ELSE gcNet' = told /\ UNCHANGED callConnections
    /\ UNCHANGED <<gcInitiator, gcInvited, gcState, gcLoop>>
    /\ UNCHANGED <<electVars, msgVars, chatVars, rmVars, liveVars, slotVars, tblVars, dispVars, idVars, sigVars, lifeVars>>

\* GroupCallHandler.handleGroupCallReject at u.
HandleGroupCallReject(from, u) ==
    /\ Arrives(from, u, "reject")
    /\ gcNet' = Pop(gcNet, from, u)
    /\ UNCHANGED <<gcInitiator, gcInvited, gcState, gcLoop, callConnections>>
    /\ UNCHANGED <<electVars, msgVars, chatVars, rmVars, liveVars, slotVars, tblVars, dispVars, idVars, sigVars, lifeVars>>

\* GroupCallHandler.handleGroupCallOffer at u: dropped when u has no call object;
\* else the connection for the sender is used, or created, the offer is applied and
\* the answer sent.  A connection that has a local offer of its own either rolls it
\* back and takes the offer or throws (caught), as the browser decides.
HandleGroupCallOffer(from, u) ==
    /\ Arrives(from, u, "offer")
    /\ \E takes \in BOOLEAN :
          IF /\ gcState[u] = "inCall"
             /\ (callConnections[u][from] = "have-local-offer" => takes)
          THEN /\ callConnections' = [callConnections EXCEPT ![u][from] = "stable"]
               /\ gcNet' = Post(Pop(gcNet, from, u), u, {from},
                                [type |-> "answer", who |-> u])
          ELSE /\ gcNet' = Pop(gcNet, from, u)
               /\ UNCHANGED callConnections
    /\ UNCHANGED <<gcInitiator, gcInvited, gcState, gcLoop>>
    /\ UNCHANGED <<electVars, msgVars, chatVars, rmVars, liveVars, slotVars, tblVars, dispVars, idVars, sigVars, lifeVars>>

\* GroupCallHandler.handleGroupCallAnswer at u: the answer is applied to the
\* connection held for the sender, which takes it when it has a local offer.
HandleGroupCallAnswer(from, u) ==
    /\ Arrives(from, u, "answer")
    /\ gcNet' = Pop(gcNet, from, u)
    /\ callConnections' =
          IF gcState[u] = "inCall" /\ callConnections[u][from] = "have-local-offer"
          THEN [callConnections EXCEPT ![u][from] = "stable"]
          ELSE callConnections
    /\ UNCHANGED <<gcInitiator, gcInvited, gcState, gcLoop>>
    /\ UNCHANGED <<electVars, msgVars, chatVars, rmVars, liveVars, slotVars, tblVars, dispVars, idVars, sigVars, lifeVars>>

\* GroupCallHandler.handleParticipantJoined at u, about the user `who`.
HandleParticipantJoined(from, u) ==
    /\ Arrives(from, u, "joined")
    /\ LET who == Head(gcNet[<<from, u>>]).who
       IN IF /\ gcState[u] = "inCall"
             /\ callConnections[u][who] = "none"
             /\ ParticipantJoinedShouldInitiate(CallUserId(u), CallUserId(who))
          THEN ConnectAndOffer(u, who, Pop(gcNet, from, u))
          ELSE gcNet' = Pop(gcNet, from, u) /\ UNCHANGED callConnections
    /\ UNCHANGED <<gcInitiator, gcInvited, gcState, gcLoop>>
    /\ UNCHANGED <<electVars, msgVars, chatVars, rmVars, liveVars, slotVars, tblVars, dispVars, idVars, sigVars, lifeVars>>

CallNext ==
    \/ \E i \in CallUsers : \E selected \in SUBSET (CallUsers \ {i}) : StartGroupCall(i, selected)
    \/ \E from, u \in CallUsers : HandleInvite(from, u)
    \/ \E u \in CallUsers : AcceptGroupCall(u)
    \/ \E u \in CallUsers : AcceptLoopStep(u)
    \/ \E from, u \in CallUsers : HandleGroupCallAccept(from, u)
    \/ \E from, u \in CallUsers : HandleGroupCallReject(from, u)
    \/ \E from, u \in CallUsers : HandleGroupCallOffer(from, u)
    \/ \E from, u \in CallUsers : HandleGroupCallAnswer(from, u)
    \/ \E from, u \in CallUsers : HandleParticipantJoined(from, u)

SpecCall == CallInit /\ [][CallNext]_vars

\* A connected call session between a and b: each holds a connection for the other
\* whose offer and answer have both been applied.
CallConnected(a, b) ==
    callConnections[a][b] = "stable" /\ callConnections[b][a] = "stable"

\* Nothing of the call set-up is pending: no message in flight, no accept under
\* way, and every invited user has answered the invite.
CallSettled ==
    /\ gcInitiator # 0
    /\ \A pr \in CallPairs : gcNet[pr] = <<>>
    /\ \A u \in CallUsers : gcState[u] # "accepting" /\ gcLoop[u] = <<>>

\* C3: once the set-up of a group call has run to completion, every two members
\* of the call (the initiator and the users that accepted) have a connected call
\* session, whatever the order of the accepts and of the messages.
MeshWhenSettled ==
    CallSettled =>
        \A a, b \in CallUsers :
            (a # b /\ gcState[a] = "inCall" /\ gcState[b] = "inCall") => CallConnected(a, b)

(***************************************************************************)
(* Chat sessions (WebRTCHandler, the signal mailboxes of the relay and     *)
(* P2PChatApp's retry loop) between two users of one room.  User 1 has the *)
(* smaller id.  A connection is known by its generation: the n-th          *)
(* RTCPeerConnection its owner created for the other user.  Timers are not *)
(* timed: a timer may fire at any point after it was set.                  *)
(***************************************************************************)
ChatUsers == {1, 2}

Other(u) == 3 - u

ChatUserId(u) == <<u>>

MaxPcs == 3         \* connections a user creates while two users join
MaxChatPcs == 2     \* the same when joins repeat or transports fail
MaxJoins == 2       \* peer-joined notifications a user is given
MaxFaults == 1      \* transport failures and peer-left notifications

Retries == 3        \* establishConnectionWithRetry(peerId, nickname, 3)

\* A connection: its generation, who created it (isInitiator), its signalingState,
\* the generation of the remote connection whose description it holds (0: none),
\* the offer the applied answer was made for (0: none), and whether it has sent
\* its candidate.
NoPc ==
    [gen |-> 0, init |-> FALSE, sig |-> "closed", rd |-> 0, ansFor |-> 0,
     sentCand |-> FALSE]

NoBusy == [kind |-> "none", pcgen |-> 0, sgen |-> 0, for |-> 0]

HasPc(u) == peers[u].gen # 0

\* The registered connection carries a data channel object: the initiator creates
\* one with the connection, the other side has one once it opened.
HasChannel(u) == HasPc(u) /\ (peers[u].init \/ dataChannels[u] # 0)

\* WebRTCHandler.getConnectedPeerIds().includes(peer).
Connected(u) == dataChannels[u] # 0

ChatInit(cap) ==
    /\ ElectIdle
    /\ MsgIdle
    /\ CallIdle
    /\ RmIdle
    /\ LiveIdle
    /\ SlotIdle
    /\ TblIdle
    /\ DispIdle
    /\ IdIdle
    /\ SigIdle
    /\ LifeIdle
    /\ appPeers = [u \in ChatUsers |-> FALSE]
    /\ joins = [u \in ChatUsers |-> 0]
    /\ loops = [u \in ChatUsers |-> {}]
    /\ peers = [u \in ChatUsers |-> NoPc]
    /\ created = [u \in ChatUsers |-> 0]
    /\ openPcs = [u \in ChatUsers |-> 0]
    /\ retired = [u \in ChatUsers |-> 0]
    /\ dataChannels = [u \in ChatUsers |-> 0]
    /\ closeEvt = [u \in ChatUsers |-> FALSE]
    /\ pendingCandidates = [u \in ChatUsers |-> {}]
    /\ candLog = [u \in ChatUsers |-> <<>>]
    /\ busy = [u \in ChatUsers |-> NoBusy]
    /\ mailbox = [u \in ChatUsers |-> <<>>]
    /\ discCalls = [u \in ChatUsers |-> 0]
    /\ faults = 0
    /\ pcCap = cap

\* A createPeerConnection that registers the new connection over the old one.
RetireNever(u) == FALSE

\* WebRTCHandler.createPeerConnection: `if (this.peers.has(peerId))`, the test that
\* sends the old connection through cleanupPeer.
RetireBeforeCreate(u) == HasPc(u)

\* WebRTCHandler.cleanupPeer at u: the registered channel and connection are closed
\* and every map entry for the peer is deleted.  Whether closing leaves a close
\* event of the channel to fire later is the browser's choice (fires); evt tells
\* whether such an event was already waiting.
cleanupPeer(u, fires, evt) ==
    /\ peers' = [peers EXCEPT ![u] = NoPc]
    /\ dataChannels' = [dataChannels EXCEPT ![u] = 0]
    /\ pendingCandidates' = [pendingCandidates EXCEPT ![u] = {}]
    /\ candLog' = [candLog EXCEPT ![u] = <<>>]
    /\ closeEvt' = [closeEvt EXCEPT ![u] = evt \/ (fires /\ HasChannel(u))]
    /\ openPcs' = [openPcs EXCEPT ![u] = IF HasPc(u) THEN @ - 1 ELSE @]
    /\ retired' = [retired EXCEPT ![u] = IF HasPc(u) THEN @ + 1 ELSE @]

\* WebRTCHandler.handlePeerDisconnected at u: cleanupPeer, then the
\* peer-disconnected callback, whatever there was to clean up.
handlePeerDisconnected(u, fires, evt) ==
    /\ cleanupPeer(u, fires, evt)
    /\ discCalls' = [discCalls EXCEPT ![u] = @ + 1]

\* WebRTCHandler.createPeerConnection(peer, isInitiator) at u up to peers.set: an
\* existing connection goes through cleanupPeer, the new one is registered.  queued
\* are the candidates the caller buffers for the new connection right after.
createPeerConnection(u, isInitiator, fires, queued) ==
    /\ created[u] < pcCap
    /\ created' = [created EXCEPT ![u] = @ + 1]
    /\ peers' = [peers EXCEPT ![u] =
                    [gen |-> created[u] + 1, init |-> isInitiator, sig |-> "stable",
                     rd |-> 0, ansFor |-> 0, sentCand |-> FALSE]]
    /\ dataChannels' = [dataChannels EXCEPT ![u] = IF RetireBeforeCreate(u) THEN 0 ELSE @]
    /\ pendingCandidates' = [pendingCandidates EXCEPT ![u] = queued]
    /\ candLog' = [candLog EXCEPT ![u] =
                      [t \in queued |-> [applied |-> 0, queued |-> TRUE]]]
    /\ closeEvt' = [closeEvt EXCEPT ![u] =
                       @ \/ (RetireBeforeCreate(u) /\ fires /\ HasChannel(u))]
    /\ openPcs' = [openPcs EXCEPT ![u] = IF RetireBeforeCreate(u) THEN @ ELSE @ + 1]
    /\ retired' = [retired EXCEPT ![u] = IF RetireBeforeCreate(u) THEN @ + 1 ELSE @]

\* A flush that empties the buffer without applying what was in it.
processPendingDropped(log, pending) == log

\* WebRTCHandler.processPendingCandidates: every buffered candidate goes through
\* addIceCandidate; the result is the log of the peer's candidates.
processPendingCandidates(log, pending) ==
    [t \in DOMAIN log |->
        IF t \in pending THEN [log[t] EXCEPT !.applied = @ + 1] ELSE log[t]]

\* FirebaseHandler.listenForSignals: the children of signals/<u> arrive in order.
NextSignal(u, type) == mailbox[u] # <<>> /\ Head(mailbox[u]).type = type

\* P2PChatApp's onPeerJoined callback at u for the other user.  A peer already known
\* is first disconnected; then, unless a channel to it is open, the user with the
\* smaller id sets the timer that starts establishConnectionWithRetry.
PeerJoinedAt(u) ==
    /\ \E fires \in BOOLEAN :
          IF appPeers[u]
          THEN handlePeerDisconnected(u, fires, closeEvt[u])
          ELSE UNCHANGED <<peers, dataChannels, pendingCandidates, candLog, closeEvt,
                           openPcs, retired, discCalls>>
    /\ appPeers' = [appPeers EXCEPT ![u] = TRUE]
    /\ joins' = [joins EXCEPT ![u] = @ + 1]
    /\ loops' = [loops EXCEPT ![u] =
                    IF dataChannels'[u] = 0
                       /\ JoinShouldInitiate(ChatUserId(u), ChatUserId(Other(u)))
                    THEN @ \cup {[id |-> joins[u] + 1, attempt |-> 1, phase |-> "start",
                                  pc |-> 0]}
                    ELSE @]
    /\ UNCHANGED <<created, busy, mailbox, faults, pcCap>>
    /\ UNCHANGED <<electVars, msgVars, callVars, rmVars, liveVars, slotVars, tblVars, dispVars, idVars, sigVars, lifeVars>>

\* The first notification a user is given of the other (listenForUsers: as an
\* existing user or as a new child).
PeerJoined(u) ==
    /\ joins[u] = 0
    /\ PeerJoinedAt(u)

\* A further notification of the same peer.
PeerJoinedAgain(u) ==
    /\ joins[u] >= 1
    /\ joins[u] < MaxJoins
    /\ PeerJoinedAt(u)

\* establishConnectionWithRetry at u, the start of an attempt: return when a channel
\* is open, else createPeerConnection(peer, true) up to its first await.
LoopAttempt(u) ==
    \E l \in loops[u] :
    /\ l.phase = "start"
    /\ IF Connected(u)
       THEN /\ loops' = [loops EXCEPT ![u] = @ \ {l}]
            /\ UNCHANGED <<peers, created, openPcs, retired, dataChannels, closeEvt,
                           pendingCandidates, candLog>>
       ELSE /\ \E fires \in BOOLEAN : createPeerConnection(u, TRUE, fires, {})
            /\ loops' = [loops EXCEPT ![u] =
                            (@ \ {l}) \cup {[l EXCEPT !.phase = "offering",
                                                       !.pc = created[u] + 1]}]
    /\ UNCHANGED <<appPeers, joins, busy, mailbox, discCalls, faults, pcCap>>
    /\ UNCHANGED <<electVars, msgVars, callVars, rmVars, liveVars, slotVars, tblVars, dispVars, idVars, sigVars, lifeVars>>

\* The loop after an attempt that did not connect: the pause, then the next
\* attempt, or the end after the last one.
NextAttempt(l) ==
    IF l.attempt < Retries
    THEN {[l EXCEPT !.attempt = @ + 1, !.phase = "start", !.pc = 0]}
    ELSE {}

\* createPeerConnection(peer, true) after createOffer and setLocalDescription: the
\* offer is sent and the loop's 3 s wait begins.  On a connection closed in the
\* meantime setLocalDescription throws into the loop's catch.
LoopOffer(u) ==
    \E l \in loops[u] :
    /\ l.phase = "offering"
    /\ IF peers[u].gen = l.pc
       THEN /\ peers' = [peers EXCEPT ![u].sig = "have-local-offer"]
            /\ mailbox' = [mailbox EXCEPT ![Other(u)] =
                              Append(@, [type |-> "offer", gen |-> l.pc, for |-> 0])]
            /\ loops' = [loops EXCEPT ![u] =
                            (@ \ {l}) \cup {[l EXCEPT !.phase = "waiting"]}]
       ELSE /\ loops' = [loops EXCEPT ![u] = (@ \ {l}) \cup NextAttempt(l)]
            /\ UNCHANGED <<peers, mailbox>>
    /\ UNCHANGED <<appPeers, joins, created, openPcs, retired, dataChannels, closeEvt,
                   pendingCandidates, candLog, busy, discCalls, faults, pcCap>>
    /\ UNCHANGED <<electVars, msgVars, callVars, rmVars, liveVars, slotVars, tblVars, dispVars, idVars, sigVars, lifeVars>>

\* establishConnectionWithRetry at u, the end of the wait: return when a channel is
\* open or the attempts are used up, else pause and start the next attempt.
LoopTimeout(u) ==
    \E l \in loops[u] :
    /\ l.phase = "waiting"
    /\ loops' = [loops EXCEPT ![u] =
                    IF Connected(u) THEN @ \ {l} ELSE (@ \ {l}) \cup NextAttempt(l)]
    /\ UNCHANGED <<appPeers, joins, peers, created, openPcs, retired, dataChannels,
                   closeEvt, pendingCandidates, candLog, busy, mailbox,
                   discCalls, faults, pcCap>>
    /\ UNCHANGED <<electVars, msgVars, callVars, rmVars, liveVars, slotVars, tblVars, dispVars, idVars, sigVars, lifeVars>>

\* WebRTCHandler.handleSignal at u for an offer, up to the await of
\* setRemoteDescription: a connection is created when none is registered, else the
\* registered one is used.
HandleOfferBegin(u) ==
    /\ NextSignal(u, "offer")
    /\ busy[u] = NoBusy
    /\ mailbox' = [mailbox EXCEPT ![u] = Tail(@)]
    /\ IF HasPc(u)
       THEN UNCHANGED <<peers, created, openPcs, retired, dataChannels, closeEvt,
                        pendingCandidates, candLog>>
       ELSE createPeerConnection(u, FALSE, FALSE, {})
    /\ busy' = [busy EXCEPT ![u] =
                   [kind |-> "offer", pcgen |-> peers'[u].gen,
                    sgen |-> Head(mailbox[u]).gen, for |-> 0]]
    /\ UNCHANGED <<appPeers, joins, loops, discCalls, faults, pcCap>>
    /\ UNCHANGED <<electVars, msgVars, callVars, rmVars, liveVars, slotVars, tblVars, dispVars, idVars, sigVars, lifeVars>>

\* handleSignal at u for an offer, from setRemoteDescription on: the answer is made
\* and sent and the buffered candidates are flushed.  setRemoteDescription throws
\* on a connection closed in the meantime; on a connection that already holds a
\* description the browser takes the offer as a renegotiation or throws.
HandleOfferFinish(u) ==
    /\ busy[u].kind = "offer"
    /\ busy' = [busy EXCEPT ![u] = NoBusy]
    /\ \E takes \in (IF peers[u].rd = 0 THEN {TRUE} ELSE BOOLEAN) :
          IF peers[u].gen = busy[u].pcgen /\ takes
          THEN /\ peers' = [peers EXCEPT ![u].rd = busy[u].sgen]
               /\ mailbox' = [mailbox EXCEPT ![Other(u)] =
                                 Append(@, [type |-> "answer", gen |-> peers[u].gen,
                                            for |-> busy[u].sgen])]
               /\ candLog' = [candLog EXCEPT ![u] =
                                 processPendingCandidates(@, pendingCandidates[u])]
               /\ pendingCandidates' = [pendingCandidates EXCEPT ![u] = {}]
          ELSE UNCHANGED <<peers, mailbox, candLog, pendingCandidates>>
    /\ UNCHANGED <<appPeers, joins, loops, created, openPcs, retired, dataChannels,
                   closeEvt, discCalls, faults, pcCap>>
    /\ UNCHANGED <<electVars, msgVars, callVars, rmVars, liveVars, slotVars, tblVars, dispVars, idVars, sigVars, lifeVars>>

\* An answer test that looks for a connection only.
AnswerAcceptedInAnyState(u) == HasPc(u)

\* handleSignal (answer): a connection is registered for the peer and its
\* signalingState is 'have-local-offer'.
AnswerAccepted(u) == HasPc(u) /\ peers[u].sig = "have-local-offer"

\* handleSignal at u for an answer, up to the await of setRemoteDescription: dropped
\* without a connection or outside have-local-offer.
HandleAnswerBegin(u) ==
    /\ NextSignal(u, "answer")
    /\ busy[u] = NoBusy
    /\ mailbox' = [mailbox EXCEPT ![u] = Tail(@)]
    /\ busy' = [busy EXCEPT ![u] =
                   IF AnswerAccepted(u)
                   THEN [kind |-> "answer", pcgen |-> peers[u].gen,
                         sgen |-> Head(mailbox[u]).gen, for |-> Head(mailbox[u]).for]
                   ELSE NoBusy]
    /\ UNCHANGED <<appPeers, joins, loops, peers, created, openPcs, retired,
                   dataChannels, closeEvt, pendingCandidates, candLog,
                   discCalls, faults, pcCap>>
    /\ UNCHANGED <<electVars, msgVars, callVars, rmVars, liveVars, slotVars, tblVars, dispVars, idVars, sigVars, lifeVars>>

\* handleSignal at u for an answer, from setRemoteDescription on.  It throws on a
\* connection closed in the meantime; an answer made for another offer the browser
\* takes or throws on.
HandleAnswerFinish(u) ==
    /\ busy[u].kind = "answer"
    /\ busy' = [busy EXCEPT ![u] = NoBusy]
    /\ \E takes \in (IF busy[u].for = busy[u].pcgen THEN {TRUE} ELSE BOOLEAN) :
          IF peers[u].gen = busy[u].pcgen /\ takes
          THEN /\ peers' = [peers EXCEPT ![u] =
                               [@ EXCEPT !.sig = "stable", !.rd = busy[u].sgen,
                                         !.ansFor = busy[u].for]]
               /\ candLog' = [candLog EXCEPT ![u] =
                                 processPendingCandidates(@, pendingCandidates[u])]
               /\ pendingCandidates' = [pendingCandidates EXCEPT ![u] = {}]
          ELSE UNCHANGED <<peers, candLog, pendingCandidates>>
    /\ UNCHANGED <<appPeers, joins, loops, created, openPcs, retired, dataChannels,
                   closeEvt, mailbox, discCalls, faults, pcCap>>
    /\ UNCHANGED <<electVars, msgVars, callVars, rmVars, liveVars, slotVars, tblVars, dispVars, idVars, sigVars, lifeVars>>

\* handleSignal (ice-candidate): `pc.remoteDescription` is null.
ShouldBuffer(u) == peers[u].rd = 0

\* handleSignal at u for a candidate: a connection is created when none is
\* registered; the candidate is applied when the connection holds a remote
\* description, else pushed on the peer's buffer.
HandleCandidate(u) ==
    /\ NextSignal(u, "cand")
    /\ mailbox' = [mailbox EXCEPT ![u] = Tail(@)]
    /\ LET t == Head(mailbox[u]).gen IN
       IF ~HasPc(u)
       THEN createPeerConnection(u, FALSE, FALSE, {t})
       ELSE /\ IF ShouldBuffer(u)
               THEN /\ pendingCandidates' = [pendingCandidates EXCEPT ![u] = @ \cup {t}]
                    /\ candLog' = [candLog EXCEPT ![u] =
                                      [x \in DOMAIN @ \cup {t} |->
                                          IF x = t THEN [applied |-> 0, queued |-> TRUE]
                                          ELSE @[x]]]
               ELSE /\ candLog' = [candLog EXCEPT ![u] =
                                      [x \in DOMAIN @ \cup {t} |->
                                          IF x = t THEN [applied |-> 1, queued |-> FALSE]
                                          ELSE @[x]]]
                    /\ UNCHANGED pendingCandidates
            /\ UNCHANGED <<peers, created, openPcs, retired, dataChannels, closeEvt>>
    /\ UNCHANGED <<appPeers, joins, loops, busy, discCalls, faults, pcCap>>
    /\ UNCHANGED <<electVars, msgVars, callVars, rmVars, liveVars, slotVars, tblVars, dispVars, idVars, sigVars, lifeVars>>

\* pc.onicecandidate at u: the registered connection, its local description set,
\* gathers a candidate and sends it to the peer.
EmitCandidate(u) ==
    /\ HasPc(u)
    /\ peers[u].sig = "have-local-offer" \/ peers[u].rd # 0
    /\ ~peers[u].sentCand
    /\ peers' = [peers EXCEPT ![u].sentCand = TRUE]
    /\ mailbox' = [mailbox EXCEPT ![Other(u)] =
                      Append(@, [type |-> "cand", gen |-> peers[u].gen, for |-> 0])]
    /\ UNCHANGED <<appPeers, joins, loops, created, openPcs, retired, dataChannels,
                   closeEvt, pendingCandidates, candLog, busy, discCalls, faults, pcCap>>
    /\ UNCHANGED <<electVars, msgVars, callVars, rmVars, liveVars, slotVars, tblVars, dispVars, idVars, sigVars, lifeVars>>

\* Both connections hold each other's description.
Paired(u) ==
    /\ HasPc(u)
    /\ HasPc(Other(u))
    /\ peers[u].sig = "stable"
    /\ peers[Other(u)].sig = "stable"
    /\ peers[u].rd = peers[Other(u)].gen
    /\ peers[Other(u)].rd = peers[u].gen

\* dataChannel.onopen at u: the channel is registered for the peer.
DataChannelOpen(u) ==
    /\ Paired(u)
    /\ dataChannels[u] = 0
    /\ dataChannels' = [dataChannels EXCEPT ![u] = peers[u].gen]
    /\ UNCHANGED <<appPeers, joins, loops, peers, created, openPcs, retired, closeEvt,
                   pendingCandidates, candLog, busy, mailbox, discCalls, faults, pcCap>>
    /\ UNCHANGED <<electVars, msgVars, callVars, rmVars, liveVars, slotVars, tblVars, dispVars, idVars, sigVars, lifeVars>>

\* dataChannel.onclose at u, of a channel closed earlier (closeEvt) or of the open
\* channel whose remote end is gone: the peer's channel is unregistered and
\* handlePeerDisconnected runs for the peer.
DataChannelOnClose(u) ==
    /\ \/ /\ closeEvt[u]
          /\ \E fires \in BOOLEAN : handlePeerDisconnected(u, fires, FALSE)
       \/ /\ dataChannels[u] # 0
          /\ ~Paired(u)
          /\ handlePeerDisconnected(u, FALSE, closeEvt[u])
    /\ UNCHANGED <<appPeers, joins, loops, created, busy, mailbox, faults, pcCap>>
    /\ UNCHANGED <<electVars, msgVars, callVars, rmVars, liveVars, slotVars, tblVars, dispVars, idVars, sigVars, lifeVars>>

\* pc.onconnectionstatechange / oniceconnectionstatechange at u with 'failed' (or
\* 'disconnected'): handlePeerDisconnected for the peer.
TransportFailed(u) ==
    /\ HasPc(u)
    /\ faults < MaxFaults
    /\ faults' = faults + 1
    /\ \E fires \in BOOLEAN : handlePeerDisconnected(u, fires, closeEvt[u])
    /\ UNCHANGED <<appPeers, joins, loops, created, busy, mailbox, pcCap>>
    /\ UNCHANGED <<electVars, msgVars, callVars, rmVars, liveVars, slotVars, tblVars, dispVars, idVars, sigVars, lifeVars>>

\* P2PChatApp's onPeerLeft callback at u: the peer is forgotten and
\* handlePeerDisconnected runs for it.
PeerLeft(u) ==
    /\ appPeers[u]
    /\ faults < MaxFaults
    /\ faults' = faults + 1
    /\ appPeers' = [appPeers EXCEPT ![u] = FALSE]
    /\ \E fires \in BOOLEAN : handlePeerDisconnected(u, fires, closeEvt[u])
    /\ UNCHANGED <<joins, loops, created, busy, mailbox, pcCap>>
    /\ UNCHANGED <<electVars, msgVars, callVars, rmVars, liveVars, slotVars, tblVars, dispVars, idVars, sigVars, lifeVars>>

\* Two users join a room; signalling is reliable and no transport fails.
JoinNext ==
    \E u \in ChatUsers :
       \/ PeerJoined(u)
       \/ LoopAttempt(u)
       \/ LoopOffer(u)
       \/ LoopTimeout(u)
       \/ HandleOfferBegin(u)
       \/ HandleOfferFinish(u)
       \/ HandleAnswerBegin(u)
       \/ HandleAnswerFinish(u)
       \/ HandleCandidate(u)
       \/ EmitCandidate(u)
       \/ DataChannelOpen(u)
       \/ DataChannelOnClose(u)

SpecJoin == ChatInit(MaxPcs) /\ [][JoinNext]_vars

\* The same with repeated notifications of the same peer.
RejoinNext ==
    \/ JoinNext
    \/ \E u \in ChatUsers : PeerJoinedAgain(u)

SpecRejoin == ChatInit(MaxChatPcs) /\ [][RejoinNext]_vars

\* Two users join, transports fail and peers leave.
FaultNext ==
    \/ JoinNext
    \/ \E u \in ChatUsers : TransportFailed(u)
    \/ \E u \in ChatUsers : PeerLeft(u)

SpecFault == ChatInit(MaxChatPcs) /\ [][FaultNext]_vars

(***************************************************************************)
(* Properties of chat sessions.                                            *)
(***************************************************************************)

\* C4: at every reachable state each participant holds at most one non-closed peer
\* connection for the remote peer, it is the registered one, and a registered data
\* channel belongs to it: a new attempt closes and unregisters the old connection
\* before the new one is registered.
OneSessionPerPeer ==
    \A u \in ChatUsers :
       /\ openPcs[u] <= 1
       /\ HasPc(u) <=> openPcs[u] = 1
       /\ dataChannels[u] # 0 => dataChannels[u] = peers[u].gen

\* C4 witness: a retry created a second initiator connection while the first was
\* registered, and the first was closed without a disconnect.
RetryReplacedSession ==
    \E u \in ChatUsers :
       /\ created[u] = 2
       /\ retired[u] = 1
       /\ discCalls[u] = 0
       /\ peers[u].gen = 2
       /\ peers[u].init

\* Both users were told of each other, the retry loops have returned, no signal
\* is waiting or being handled, and no event is left to fire.
JoinSettled ==
    /\ \A u \in ChatUsers : joins[u] >= 1 /\ loops[u] = {} /\ mailbox[u] = <<>>
    /\ ~ENABLED JoinNext

\* C5 as stated: two users having joined, with reliable signalling and no transport
\* failure, once nothing remains to be done each side has one open session to the
\* other; only the user with the smaller id creates initiator connections; no user
\* ever has two connections open.
JoinEndsConnected ==
    /\ JoinSettled => \A u \in ChatUsers : HasPc(u) /\ Connected(u)
    /\ \A u \in ChatUsers : peers[u].init => u = 1
    /\ \A u \in ChatUsers : openPcs[u] <= 1

DisconnectedOncePerSession ==
    \A u \in ChatUsers : discCalls[u] = retired[u]

\* C11 as stated: a peer-joined notification for a peer that is already connected or
\* already negotiating leaves the session, the disconnect count and the retry loops
\* as they were.
JoinIdempotent ==
    [][\A u \in ChatUsers :
          (joins'[u] = joins[u] + 1 /\ (HasPc(u) \/ loops[u] # {}))
             => /\ peers'[u] = peers[u]
                /\ dataChannels'[u] = dataChannels[u]
                /\ discCalls'[u] = discCalls[u]
                /\ loops'[u] = loops[u]]_vars

(***************************************************************************)
(* The reconnection manager (ReconnectionManager) of one participant.      *)
(*                                                                         *)
(* Time is counted in seconds: every pending timer holds the seconds left  *)
(* on it, Tick lets one second pass when no timer is due, and a timer      *)
(* fires when it has reached zero.  The participant is RmSelf; the room    *)
(* holds one peer with a smaller id and one with a larger id.  The         *)
(* environment is the relay (online or not, accepting the presence write   *)
(* or not), the network between the peers, and the smaller-id peer, which  *)
(* opens a session towards the participant only when it is told that the   *)
(* participant joined (app.js onPeerJoined) or when it has lost all of its *)
(* own sessions and reconnects itself.  establishConnectionWithRetry is    *)
(* taken to connect whenever the network is up.                            *)
(***************************************************************************)
RmSelf == 2
RmPeers == {1, 3}

MaxLosses == 2      \* connection losses in a behaviour
MaxManuals == 1     \* manual reconnects in a behaviour

maxReconnectionAttempts == 5
initialReconnectionDelay == 1000    \* milliseconds
maxReconnectionDelay == 30000       \* milliseconds
healthCheckInterval == 5            \* seconds
connectionTimeout == 10             \* seconds
detectionDelay == 5                 \* seconds
maxWaitTime == 15                   \* seconds

RmInit ==
    /\ ElectIdle
    /\ MsgIdle
    /\ CallIdle
    /\ ChatIdle
    /\ LiveIdle
    /\ SlotIdle
    /\ TblIdle
    /\ DispIdle
    /\ IdIdle
    /\ SigIdle
    /\ LifeIdle
    /\ reconnectionState = "idle"
    /\ reconnectionAttempts = 0
    /\ reconnectionDelay = initialReconnectionDelay
    /\ needsFirebaseReconnect = FALSE
    /\ needsWebRTCReconnect = FALSE
    /\ lostPeers = {}
    /\ recordedLost = {}
    /\ detectionTimer = -1
    /\ reconnectionTimers = <<>>
    /\ healthTimer = healthCheckInterval
    /\ rmPhase = [name |-> "none", rem |-> 0]
    /\ rmFirebase = TRUE
    /\ rmRoomRef = TRUE
    /\ rmWritable = TRUE
    /\ rmNetOk = TRUE
    /\ rmConnected = RmPeers
    /\ rmRejoined = FALSE
    /\ rmOthersHealthy \in BOOLEAN
    /\ rmLosses = 0
    /\ rmManuals = 0

\* getHealthStatus: what the health check reads
NeedsReconnection ==
    \/ ~rmFirebase /\ ~rmRoomRef
    \/ RmPeers # {} /\ rmConnected = {}

\* startReconnection without its test of the state
startReconnectionUnguarded(attempts) ==
    /\ reconnectionState' = "reconnecting"
    /\ reconnectionAttempts' = attempts + 1
    /\ rmPhase' = [name |-> "firebase", rem |-> 0]

\* startReconnection, called with the counter at `attempts`
startReconnection(attempts) ==
    IF reconnectionState = "reconnecting"
    THEN /\ reconnectionAttempts' = attempts
         /\ UNCHANGED <<reconnectionState, rmPhase>>
    ELSE /\ reconnectionState' = "reconnecting"
         /\ reconnectionAttempts' = attempts + 1
         /\ rmPhase' = [name |-> "firebase", rem |-> 0]

\* the timer handleReconnectionFailure sets
BackoffUnset(delay, k) == <<>>

BackoffTimer(delay, k) ==
    <<[rem |-> delay \div 1000, k |-> k, latest |-> TRUE]>>

handleReconnectionFailure ==
    /\ rmPhase' = [name |-> "none", rem |-> 0]
    /\ IF reconnectionAttempts >= maxReconnectionAttempts
       THEN /\ reconnectionState' = "failed"
            /\ UNCHANGED <<reconnectionDelay, reconnectionTimers>>
       ELSE /\ reconnectionDelay' =
                   IF reconnectionDelay * 2 < maxReconnectionDelay
                   THEN reconnectionDelay * 2 ELSE maxReconnectionDelay
            /\ reconnectionState' = "detecting"
            /\ reconnectionTimers' =
                   [i \in DOMAIN reconnectionTimers |->
                       [reconnectionTimers[i] EXCEPT !.latest = FALSE]]
                   \o BackoffTimer(reconnectionDelay', reconnectionAttempts)
    /\ UNCHANGED <<reconnectionAttempts, lostPeers, needsFirebaseReconnect,
                   needsWebRTCReconnect>>

handleReconnectionSuccess ==
    /\ rmPhase' = [name |-> "none", rem |-> 0]
    /\ reconnectionState' = "connected"
    /\ reconnectionAttempts' = 0
    /\ reconnectionDelay' = initialReconnectionDelay
    /\ lostPeers' = {}
    /\ needsFirebaseReconnect' = FALSE
    /\ needsWebRTCReconnect' = FALSE
    /\ UNCHANGED reconnectionTimers

\* the periodic health check: checkConnectionHealth with handleConnectionLoss and
\* handleConnectionRecovered
CheckConnectionHealth ==
    /\ healthTimer = 0
    /\ healthTimer' = healthCheckInterval
    /\ IF reconnectionState = "reconnecting"
       THEN UNCHANGED <<reconnectionState, reconnectionAttempts, reconnectionDelay,
                        needsFirebaseReconnect, needsWebRTCReconnect, lostPeers,
                        recordedLost, detectionTimer>>
       ELSE IF NeedsReconnection
       THEN IF reconnectionState # "idle"
            THEN UNCHANGED <<reconnectionState, reconnectionAttempts,
                             reconnectionDelay, needsFirebaseReconnect,
                             needsWebRTCReconnect, lostPeers, recordedLost,
                             detectionTimer>>
            ELSE /\ reconnectionState' = "detecting"
                 /\ needsFirebaseReconnect' = (~rmFirebase \/ ~rmRoomRef)
                 /\ needsWebRTCReconnect' = (RmPeers # {} /\ rmConnected = {})
                 /\ lostPeers' = IF needsWebRTCReconnect'
                                 THEN lostPeers \cup (RmPeers \ rmConnected)
                                 ELSE lostPeers
                 /\ recordedLost' = lostPeers'
                 /\ detectionTimer' = detectionDelay
                 /\ UNCHANGED <<reconnectionAttempts, reconnectionDelay>>
       ELSE IF reconnectionState = "detecting"
       THEN /\ reconnectionState' = "connected"
            /\ reconnectionAttempts' = 0
            /\ reconnectionDelay' = initialReconnectionDelay
            /\ lostPeers' = {}
            /\ UNCHANGED <<needsFirebaseReconnect, needsWebRTCReconnect,
                           recordedLost, detectionTimer>>
       ELSE UNCHANGED <<reconnectionState, reconnectionAttempts, reconnectionDelay,
                        needsFirebaseReconnect, needsWebRTCReconnect, lostPeers,
                        recordedLost, detectionTimer>>
    /\ UNCHANGED <<reconnectionTimers, rmPhase, rmFirebase, rmRoomRef, rmWritable,
                   rmNetOk, rmConnected, rmRejoined, rmOthersHealthy, rmLosses,
                   rmManuals>>
    /\ UNCHANGED <<electVars, msgVars, callVars, chatVars, liveVars, slotVars, tblVars, dispVars, idVars, sigVars, lifeVars>>

\* the 5 s timer set by handleConnectionLoss
DetectionTimerFires ==
    /\ detectionTimer = 0
    /\ detectionTimer' = -1
    /\ IF reconnectionState = "detecting"
       THEN startReconnection(reconnectionAttempts)
       ELSE UNCHANGED <<reconnectionState, reconnectionAttempts, rmPhase>>
    /\ UNCHANGED <<reconnectionDelay, needsFirebaseReconnect, needsWebRTCReconnect,
                   lostPeers, recordedLost, reconnectionTimers, healthTimer,
                   rmFirebase, rmRoomRef, rmWritable, rmNetOk, rmConnected,
                   rmRejoined, rmOthersHealthy, rmLosses, rmManuals>>
    /\ UNCHANGED <<electVars, msgVars, callVars, chatVars, liveVars, slotVars, tblVars, dispVars, idVars, sigVars, lifeVars>>

\* a backoff timer set by handleReconnectionFailure
ReconnectionTimerFires ==
    /\ \E i \in DOMAIN reconnectionTimers :
          /\ reconnectionTimers[i].rem = 0
          /\ reconnectionTimers' =
                [j \in 1..(Len(reconnectionTimers) - 1) |->
                    reconnectionTimers[IF j < i THEN j ELSE j + 1]]
    /\ startReconnection(reconnectionAttempts)
    /\ UNCHANGED <<reconnectionDelay, needsFirebaseReconnect, needsWebRTCReconnect,
                   lostPeers, recordedLost, detectionTimer, healthTimer,
                   rmFirebase, rmRoomRef, rmWritable, rmNetOk, rmConnected,
                   rmRejoined, rmOthersHealthy, rmLosses, rmManuals>>
    /\ UNCHANGED <<electVars, msgVars, callVars, chatVars, liveVars, slotVars, tblVars, dispVars, idVars, sigVars, lifeVars>>

\* ReconnectionManager.manualReconnect
RmManualReconnect ==
    /\ rmManuals < MaxManuals
    /\ rmManuals' = rmManuals + 1
    /\ reconnectionDelay' = initialReconnectionDelay
    /\ reconnectionTimers' =
          SelectSeq(reconnectionTimers, LAMBDA t : ~t.latest)
    /\ startReconnection(0)
    /\ UNCHANGED <<needsFirebaseReconnect, needsWebRTCReconnect, lostPeers,
                   recordedLost, detectionTimer, healthTimer, rmFirebase,
                   rmRoomRef, rmWritable, rmNetOk, rmConnected, rmRejoined,
                   rmOthersHealthy, rmLosses>>
    /\ UNCHANGED <<electVars, msgVars, callVars, chatVars, liveVars, slotVars, tblVars, dispVars, idVars, sigVars, lifeVars>>

\* the running attempt moves on to its next phase
AttemptContinues(phase) ==
    /\ rmPhase' = phase
    /\ UNCHANGED <<reconnectionState, reconnectionAttempts, reconnectionDelay,
                   reconnectionTimers, lostPeers, needsFirebaseReconnect,
                   needsWebRTCReconnect>>

\* the tail of reconnectFirebase: joinRoom and the check of its result
RejoinRoom ==
    /\ rmRoomRef' = TRUE
    /\ IF rmWritable
       THEN /\ rmRejoined' = TRUE
            /\ AttemptContinues([name |-> "webrtc", rem |-> 0])
       ELSE /\ UNCHANGED rmRejoined
            /\ handleReconnectionFailure

\* phase 1 of startReconnection: reconnectFirebase up to its first wait
ReconnectFirebase ==
    /\ rmPhase.name = "firebase"
    /\ IF ~needsFirebaseReconnect
       THEN /\ AttemptContinues([name |-> "webrtc", rem |-> 0])
            /\ UNCHANGED <<rmRoomRef, rmRejoined>>
       ELSE IF rmFirebase
       THEN RejoinRoom
       ELSE /\ rmRoomRef' = FALSE
            /\ UNCHANGED rmRejoined
            /\ AttemptContinues([name |-> "fbwait", rem |-> connectionTimeout])
    /\ UNCHANGED <<recordedLost, detectionTimer, healthTimer, rmFirebase, rmWritable,
                   rmNetOk, rmConnected, rmOthersHealthy, rmLosses, rmManuals>>
    /\ UNCHANGED <<electVars, msgVars, callVars, chatVars, liveVars, slotVars, tblVars, dispVars, idVars, sigVars, lifeVars>>

\* waitForFirebaseConnection resolves or times out
WaitForFirebaseConnection ==
    /\ rmPhase.name = "fbwait"
    /\ rmFirebase \/ rmPhase.rem = 0
    /\ IF rmFirebase
       THEN RejoinRoom
       ELSE /\ handleReconnectionFailure
            /\ UNCHANGED <<rmRoomRef, rmRejoined>>
    /\ UNCHANGED <<recordedLost, detectionTimer, healthTimer, rmFirebase, rmWritable,
                   rmNetOk, rmConnected, rmOthersHealthy, rmLosses, rmManuals>>
    /\ UNCHANGED <<electVars, msgVars, callVars, chatVars, liveVars, slotVars, tblVars, dispVars, idVars, sigVars, lifeVars>>

\* phase 2 of startReconnection: reconnectWebRTC up to waitForWebRTCConnections
ReconnectWebRTC ==
    /\ rmPhase.name = "webrtc"
    /\ IF ~needsWebRTCReconnect
       THEN /\ AttemptContinues([name |-> "verify", rem |-> 0])
            /\ UNCHANGED rmConnected
       ELSE /\ rmConnected' =
                  IF rmNetOk
                  THEN {p \in lostPeers :
                           ReconnectShouldInitiate(<<RmSelf>>, <<p>>)}
                  ELSE {}
            /\ AttemptContinues([name |-> "rtcwait", rem |-> maxWaitTime])
    /\ UNCHANGED <<recordedLost, detectionTimer, healthTimer, rmFirebase, rmRoomRef,
                   rmWritable, rmNetOk, rmRejoined, rmOthersHealthy, rmLosses,
                   rmManuals>>
    /\ UNCHANGED <<electVars, msgVars, callVars, chatVars, liveVars, slotVars, tblVars, dispVars, idVars, sigVars, lifeVars>>

WaitForWebRTCConnections ==
    /\ rmPhase.name = "rtcwait"
    /\ Cardinality(rmConnected) >= Cardinality(lostPeers) \/ rmPhase.rem = 0
    /\ AttemptContinues([name |-> "verify", rem |-> 0])
    /\ UNCHANGED <<recordedLost, detectionTimer, healthTimer, rmFirebase, rmRoomRef,
                   rmWritable, rmNetOk, rmConnected, rmRejoined, rmOthersHealthy,
                   rmLosses, rmManuals>>
    /\ UNCHANGED <<electVars, msgVars, callVars, chatVars, liveVars, slotVars, tblVars, dispVars, idVars, sigVars, lifeVars>>

\* phase 3 of startReconnection: verifyReconnection and the handler of its result
VerifyReconnection ==
    /\ rmPhase.name = "verify"
    /\ IF \/ needsFirebaseReconnect /\ ~rmFirebase
          \/ needsWebRTCReconnect /\ rmConnected = {} /\ RmPeers # {}
       THEN handleReconnectionFailure
       ELSE handleReconnectionSuccess
    /\ UNCHANGED <<recordedLost, detectionTimer, healthTimer, rmFirebase, rmRoomRef,
                   rmWritable, rmNetOk, rmConnected, rmRejoined, rmOthersHealthy,
                   rmLosses, rmManuals>>
    /\ UNCHANGED <<electVars, msgVars, callVars, chatVars, liveVars, slotVars, tblVars, dispVars, idVars, sigVars, lifeVars>>

\* one second passes; no timer is overdue
Tick ==
    /\ healthTimer > 0
    /\ detectionTimer # 0
    /\ \A i \in DOMAIN reconnectionTimers : reconnectionTimers[i].rem > 0
    /\ rmPhase.name \in {"fbwait", "rtcwait"} => rmPhase.rem > 0
    /\ healthTimer' = healthTimer - 1
    /\ detectionTimer' = IF detectionTimer > 0 THEN detectionTimer - 1 ELSE detectionTimer
    /\ reconnectionTimers' =
          [i \in DOMAIN reconnectionTimers |->
              [reconnectionTimers[i] EXCEPT !.rem = @ - 1]]
    /\ rmPhase' = IF rmPhase.rem > 0 THEN [rmPhase EXCEPT !.rem = @ - 1] ELSE rmPhase
    /\ UNCHANGED <<reconnectionState, reconnectionAttempts, reconnectionDelay,
                   needsFirebaseReconnect, needsWebRTCReconnect, lostPeers,
                   recordedLost, rmFirebase, rmRoomRef, rmWritable, rmNetOk,
                   rmConnected, rmRejoined, rmOthersHealthy, rmLosses, rmManuals>>
    /\ UNCHANGED <<electVars, msgVars, callVars, chatVars, liveVars, slotVars, tblVars, dispVars, idVars, sigVars, lifeVars>>

\* the environment: every session is lost; the relay and the network may be down too
LoseConnections ==
    /\ rmLosses < MaxLosses
    /\ rmConnected # {}
    /\ rmLosses' = rmLosses + 1
    /\ rmConnected' = {}
    /\ rmRejoined' = FALSE
    /\ rmNetOk' \in BOOLEAN
    /\ rmFirebase' \in BOOLEAN
    /\ rmWritable' \in BOOLEAN
    /\ UNCHANGED <<reconnectionState, reconnectionAttempts, reconnectionDelay,
                   needsFirebaseReconnect, needsWebRTCReconnect, lostPeers,
                   recordedLost, detectionTimer, reconnectionTimers, healthTimer,
                   rmPhase, rmRoomRef, rmOthersHealthy, rmManuals>>
    /\ UNCHANGED <<electVars, msgVars, callVars, chatVars, liveVars, slotVars, tblVars, dispVars, idVars, sigVars, lifeVars>>

\* the environment: the relay and the network are healthy again
NetworkHeals ==
    /\ ~(rmNetOk /\ rmFirebase /\ rmWritable)
    /\ rmNetOk' = TRUE
    /\ rmFirebase' = TRUE
    /\ rmWritable' = TRUE
    /\ UNCHANGED <<reconnectionState, reconnectionAttempts, reconnectionDelay,
                   needsFirebaseReconnect, needsWebRTCReconnect, lostPeers,
                   recordedLost, detectionTimer, reconnectionTimers, healthTimer,
                   rmPhase, rmRoomRef, rmConnected, rmRejoined, rmOthersHealthy,
                   rmLosses, rmManuals>>
    /\ UNCHANGED <<electVars, msgVars, callVars, chatVars, liveVars, slotVars, tblVars, dispVars, idVars, sigVars, lifeVars>>

\* a smaller-id peer opens a session towards the participant
PeerInitiates ==
    /\ rmNetOk
    /\ rmRejoined \/ ~rmOthersHealthy
    /\ \E p \in RmPeers \ rmConnected :
          /\ JoinShouldInitiate(<<p>>, <<RmSelf>>)
          /\ rmConnected' = rmConnected \cup {p}
    /\ UNCHANGED <<reconnectionState, reconnectionAttempts, reconnectionDelay,
                   needsFirebaseReconnect, needsWebRTCReconnect, lostPeers,
                   recordedLost, detectionTimer, reconnectionTimers, healthTimer,
                   rmPhase, rmFirebase, rmRoomRef, rmWritable, rmNetOk, rmRejoined,
                   rmOthersHealthy, rmLosses, rmManuals>>
    /\ UNCHANGED <<electVars, msgVars, callVars, chatVars, liveVars, slotVars, tblVars, dispVars, idVars, sigVars, lifeVars>>

RmNext ==
    \/ CheckConnectionHealth
    \/ DetectionTimerFires
    \/ ReconnectionTimerFires
    \/ RmManualReconnect
    \/ ReconnectFirebase
    \/ WaitForFirebaseConnection
    \/ ReconnectWebRTC
    \/ WaitForWebRTCConnections
    \/ VerifyReconnection
    \/ Tick
    \/ LoseConnections
    \/ NetworkHeals
    \/ PeerInitiates

SpecReconnect == RmInit /\ [][RmNext]_vars

\* timers fire, time passes, every awaited operation completes, the network heals
SpecReconnectFair ==
    /\ RmInit
    /\ [][RmNext]_vars
    /\ WF_vars(CheckConnectionHealth)
    /\ WF_vars(DetectionTimerFires)
    /\ WF_vars(ReconnectionTimerFires)
    /\ WF_vars(ReconnectFirebase)
    /\ WF_vars(WaitForFirebaseConnection)
    /\ WF_vars(ReconnectWebRTC)
    /\ WF_vars(WaitForWebRTCConnections)
    /\ WF_vars(VerifyReconnection)
    /\ WF_vars(Tick)
    /\ WF_vars(NetworkHeals)
    /\ WF_vars(PeerInitiates)

(***************************************************************************)
(* Properties of the reconnection manager.                                 *)
(***************************************************************************)

\* C12 as stated: the attempt counter never exceeds maxReconnectionAttempts, and once
\* the state is 'failed' no attempt is started by a timer or a health check: only a
\* manual reconnect leaves 'failed'.
AttemptsCapped ==
    [][/\ reconnectionAttempts' <= maxReconnectionAttempts
       /\ (reconnectionState = "failed" /\ reconnectionState' # "failed")
             => rmManuals' = rmManuals + 1]_vars

BackoffSchedule ==
    [][Len(reconnectionTimers') > Len(reconnectionTimers)
          => LET t == reconnectionTimers'[Len(reconnectionTimers')]
             IN  t.rem = IF 2 ^ (t.k - 1) < 30 THEN 2 ^ (t.k - 1) ELSE 30]_vars

\* C15 as stated, in the case it names: a loss of every session has been detected, the
\* relay and the network are healthy again for good, and the smaller-id peer still has
\* healthy sessions to others.  Then, unless the user reconnects by hand, the
\* participant eventually holds a connected session with every peer recorded as lost,
\* whichever side has to open it.
LostPeersReconnected ==
    []((reconnectionState = "detecting" /\ recordedLost # {} /\ rmOthersHealthy
          /\ rmNetOk /\ rmFirebase /\ rmWritable /\ rmLosses = MaxLosses
          /\ rmManuals = 0)
       => <>(recordedLost \subseteq rmConnected \/ rmManuals > 0))

\* C16 as stated: after a successful reconnection or a recovery during detection the
\* manager is armed again: a periodic health check that then observes a loss moves it
\* to 'detecting'.
RearmedAfterRecovery ==
    [][(/\ reconnectionState = "connected"
        /\ NeedsReconnection
        /\ healthTimer = 0
        /\ healthTimer' = healthCheckInterval)
          => reconnectionState' = "detecting"]_vars

(***************************************************************************)
(* The grace period of a disconnected transport and the inactivity pause.  *)
(*                                                                         *)
(* The participant RmSelf holds a chat session with each of RmPeers.       *)
(* Time is counted in ticks of ten seconds.  iceState is the last state    *)
(* the transport of a session reported; a browser reports a change of the  *)
(* transport through iceconnectionstatechange and, where it implements     *)
(* RTCPeerConnection.connectionState, through connectionstatechange as     *)
(* well.  A data channel that closes first shows readyState 'closed' and   *)
(* then has its close event delivered.                                     *)
(***************************************************************************)
MaxHides == 1           \* times the page is hidden in a behaviour

graceTicks == 3         \* 30000 ms
pausedGraceTicks == 30  \* 300000 ms
pauseAfterTicks == 3    \* 30000 ms

LiveInit ==
    /\ ElectIdle
    /\ MsgIdle
    /\ CallIdle
    /\ ChatIdle
    /\ RmIdle
    /\ SlotIdle
    /\ TblIdle
    /\ DispIdle
    /\ IdIdle
    /\ SigIdle
    /\ LifeIdle
    /\ iceState = [p \in RmPeers |-> "connected"]
    /\ livePcs = RmPeers
    /\ channelState = [p \in RmPeers |-> "open"]
    /\ disconnectTimeouts = [p \in RmPeers |-> [rem |-> -1, total |-> 0]]
    /\ inactivityPaused = FALSE
    /\ pausedChannels = {}
    /\ isPageVisible = TRUE
    /\ hiddenTicks = 0
    /\ disconnectTimer = -1
    /\ pausedState = FALSE
    /\ inputDisabled = FALSE
    /\ peerDisconnects = [p \in RmPeers |-> 0]
    /\ rebuilds = [p \in RmPeers |-> 0]
    /\ resumeThrew = FALSE
    /\ hides = 0

\* WebRTCHandler.handlePeerDisconnected(p): cleanupPeer and the callback
LivePeerDisconnected(p) ==
    /\ disconnectTimeouts' = [disconnectTimeouts EXCEPT ![p] = [rem |-> -1, total |-> 0]]
    /\ channelState' = [channelState EXCEPT ![p] = "none"]
    /\ livePcs' = livePcs \ {p}
    /\ peerDisconnects' = [peerDisconnects EXCEPT ![p] = @ + 1]

\* the transport of p's session becomes 'disconnected': oniceconnectionstatechange sets
\* the grace timer and, where the browser raises it, onconnectionstatechange runs
TransportDisconnected(p) ==
    /\ p \in livePcs
    /\ iceState[p] = "connected"
    /\ iceState' = [iceState EXCEPT ![p] = "disconnected"]
    /\ \E connectionStateEvent \in BOOLEAN :
          IF connectionStateEvent
          THEN LivePeerDisconnected(p)
          ELSE /\ disconnectTimeouts' =
                     [disconnectTimeouts EXCEPT ![p] =
                         IF inactivityPaused
                         THEN [rem |-> pausedGraceTicks, total |-> pausedGraceTicks]
                         ELSE [rem |-> graceTicks, total |-> graceTicks]]
               /\ UNCHANGED <<channelState, livePcs, peerDisconnects>>
    /\ UNCHANGED <<inactivityPaused, pausedChannels, isPageVisible, hiddenTicks,
                   disconnectTimer, pausedState, inputDisabled, rebuilds, resumeThrew,
                   hides>>
    /\ UNCHANGED <<electVars, msgVars, callVars, chatVars, rmVars, slotVars, tblVars, dispVars, idVars, sigVars, lifeVars>>

\* the transport is 'connected' again
TransportRestored(p) ==
    /\ p \in livePcs
    /\ iceState[p] = "disconnected"
    /\ iceState' = [iceState EXCEPT ![p] = "connected"]
    /\ disconnectTimeouts' = [disconnectTimeouts EXCEPT ![p] = [rem |-> -1, total |-> 0]]
    /\ UNCHANGED <<livePcs, channelState, inactivityPaused, pausedChannels,
                   isPageVisible, hiddenTicks, disconnectTimer, pausedState,
                   inputDisabled, peerDisconnects, rebuilds, resumeThrew, hides>>
    /\ UNCHANGED <<electVars, msgVars, callVars, chatVars, rmVars, slotVars, tblVars, dispVars, idVars, sigVars, lifeVars>>

\* the transport reports 'failed'
IceFailed(p) ==
    /\ p \in livePcs
    /\ iceState[p] \in {"connected", "disconnected"}
    /\ iceState' = [iceState EXCEPT ![p] = "failed"]
    /\ LivePeerDisconnected(p)
    /\ UNCHANGED <<inactivityPaused, pausedChannels, isPageVisible, hiddenTicks,
                   disconnectTimer, pausedState, inputDisabled, rebuilds, resumeThrew,
                   hides>>
    /\ UNCHANGED <<electVars, msgVars, callVars, chatVars, rmVars, slotVars, tblVars, dispVars, idVars, sigVars, lifeVars>>

\* the grace timer of p expires
DisconnectTimeoutFires(p) ==
    /\ disconnectTimeouts[p].rem = 0
    /\ IF p \in livePcs /\ iceState[p] = "disconnected"
       THEN LivePeerDisconnected(p)
       ELSE /\ disconnectTimeouts' =
                  [disconnectTimeouts EXCEPT ![p] = [rem |-> -1, total |-> 0]]
            /\ UNCHANGED <<channelState, livePcs, peerDisconnects>>
    /\ UNCHANGED <<iceState, inactivityPaused, pausedChannels, isPageVisible,
                   hiddenTicks, disconnectTimer, pausedState, inputDisabled, rebuilds,
                   resumeThrew, hides>>
    /\ UNCHANGED <<electVars, msgVars, callVars, chatVars, rmVars, slotVars, tblVars, dispVars, idVars, sigVars, lifeVars>>

\* p's data channel closes; its close event is still to be delivered
ChannelCloses(p) ==
    /\ p \in livePcs
    /\ channelState[p] = "open"
    /\ channelState' = [channelState EXCEPT ![p] = "closed"]
    /\ UNCHANGED <<iceState, livePcs, disconnectTimeouts, inactivityPaused,
                   pausedChannels, isPageVisible, hiddenTicks, disconnectTimer,
                   pausedState, inputDisabled, peerDisconnects, rebuilds, resumeThrew,
                   hides>>
    /\ UNCHANGED <<electVars, msgVars, callVars, chatVars, rmVars, slotVars, tblVars, dispVars, idVars, sigVars, lifeVars>>

\* dataChannel.onclose of the channel that closed
ChannelOnClose(p) ==
    /\ channelState[p] \in {"closed", "rebuilt"}
    /\ LivePeerDisconnected(p)
    /\ UNCHANGED <<iceState, inactivityPaused, pausedChannels, isPageVisible,
                   hiddenTicks, disconnectTimer, pausedState, inputDisabled, rebuilds,
                   resumeThrew, hides>>
    /\ UNCHANGED <<electVars, msgVars, callVars, chatVars, rmVars, slotVars, tblVars, dispVars, idVars, sigVars, lifeVars>>

handlePageHidden ==
    /\ isPageVisible
    /\ hides < MaxHides
    /\ hides' = hides + 1
    /\ isPageVisible' = FALSE
    /\ hiddenTicks' = 0
    /\ disconnectTimer' = pauseAfterTicks
    /\ UNCHANGED <<iceState, livePcs, channelState, disconnectTimeouts,
                   inactivityPaused, pausedChannels, pausedState, inputDisabled,
                   peerDisconnects, rebuilds, resumeThrew>>
    /\ UNCHANGED <<electVars, msgVars, callVars, chatVars, rmVars, slotVars, tblVars, dispVars, idVars, sigVars, lifeVars>>

\* the app's 30 s timer: pauseConnections with setInactivityPause and pauseDataChannels
pauseConnections ==
    /\ disconnectTimer = 0
    /\ disconnectTimer' = -1
    /\ IF ~isPageVisible
       THEN /\ pausedState' = TRUE
            /\ inactivityPaused' = TRUE
            /\ pausedChannels' =
                  pausedChannels \cup {p \in RmPeers : channelState[p] = "open"}
            /\ inputDisabled' = TRUE
       ELSE UNCHANGED <<pausedState, inactivityPaused, pausedChannels, inputDisabled>>
    /\ UNCHANGED <<iceState, livePcs, channelState, disconnectTimeouts, isPageVisible,
                   hiddenTicks, peerDisconnects, rebuilds, resumeThrew, hides>>
    /\ UNCHANGED <<electVars, msgVars, callVars, chatVars, rmVars, slotVars, tblVars, dispVars, idVars, sigVars, lifeVars>>

\* handlePageVisible with resumeConnections and resumeDataChannels
handlePageVisible ==
    /\ ~isPageVisible
    /\ isPageVisible' = TRUE
    /\ disconnectTimer' = -1
    /\ hiddenTicks' = 0
    /\ IF hiddenTicks >= pauseAfterTicks /\ pausedState
       THEN /\ inactivityPaused' = FALSE
            /\ LET \* the channels resumeDataChannels creates
                   Rebuilt == {p \in pausedChannels :
                                  /\ channelState[p] # "open"
                                  /\ p \in livePcs /\ iceState[p] = "connected"
                                  /\ JoinShouldInitiate(<<RmSelf>>, <<p>>)}
               IN  /\ channelState' =
                         [p \in RmPeers |->
                             IF p \in Rebuilt THEN "rebuilt" ELSE channelState[p]]
                   /\ rebuilds' =
                         [p \in RmPeers |->
                             rebuilds[p] + IF p \in Rebuilt THEN 1 ELSE 0]
            /\ pausedChannels' = {}
            /\ IF \A p \in RmPeers : channelState'[p] # "open"
               THEN \* this.reconnect is not a function
                    /\ resumeThrew' = TRUE
                    /\ UNCHANGED <<pausedState, inputDisabled>>
               ELSE /\ pausedState' = FALSE
                    /\ inputDisabled' = FALSE
                    /\ UNCHANGED resumeThrew
       ELSE UNCHANGED <<inactivityPaused, channelState, rebuilds, pausedChannels,
                        pausedState, inputDisabled, resumeThrew>>
    /\ UNCHANGED <<iceState, livePcs, disconnectTimeouts, peerDisconnects, hides>>
    /\ UNCHANGED <<electVars, msgVars, callVars, chatVars, rmVars, slotVars, tblVars, dispVars, idVars, sigVars, lifeVars>>

\* ten seconds pass; no timer is overdue
LiveTick ==
    /\ disconnectTimer # 0
    /\ \A p \in RmPeers : disconnectTimeouts[p].rem # 0
    /\ \/ disconnectTimer > 0
       \/ \E p \in RmPeers : disconnectTimeouts[p].rem > 0
       \/ ~isPageVisible /\ hiddenTicks < pauseAfterTicks
    /\ disconnectTimer' = IF disconnectTimer > 0 THEN disconnectTimer - 1 ELSE -1
    /\ disconnectTimeouts' =
          [p \in RmPeers |->
              IF disconnectTimeouts[p].rem > 0
              THEN [disconnectTimeouts[p] EXCEPT !.rem = @ - 1]
              ELSE disconnectTimeouts[p]]
    /\ hiddenTicks' = IF ~isPageVisible /\ hiddenTicks < pauseAfterTicks
                      THEN hiddenTicks + 1 ELSE hiddenTicks
    /\ UNCHANGED <<iceState, livePcs, channelState, inactivityPaused, pausedChannels,
                   isPageVisible, pausedState, inputDisabled, peerDisconnects,
                   rebuilds, resumeThrew, hides>>
    /\ UNCHANGED <<electVars, msgVars, callVars, chatVars, rmVars, slotVars, tblVars, dispVars, idVars, sigVars, lifeVars>>

LiveNext ==
    \/ \E p \in RmPeers :
          \/ TransportDisconnected(p)
          \/ TransportRestored(p)
          \/ IceFailed(p)
          \/ DisconnectTimeoutFires(p)
          \/ ChannelCloses(p)
          \/ ChannelOnClose(p)
    \/ handlePageHidden
    \/ pauseConnections
    \/ handlePageVisible
    \/ LiveTick

SpecLive == LiveInit /\ [][LiveNext]_vars

(***************************************************************************)
(* Properties of the grace period and the pause.                           *)
(***************************************************************************)

\* C17 as stated: a session whose transport reported 'disconnected' is torn down only
\* when its grace timer expires with the transport still 'disconnected'; a transport
\* that comes back in time costs no session and no peer-disconnected callback.
TeardownOnlyOnGraceExpiry ==
    [][\A p \in RmPeers :
          (/\ p \in livePcs
           /\ channelState[p] = "open"
           /\ iceState'[p] = "disconnected"
           /\ (p \notin livePcs' \/ peerDisconnects'[p] # peerDisconnects[p]))
             => (iceState[p] = "disconnected" /\ disconnectTimeouts[p].rem = 0)]_vars

\* C18 as stated: while the page is hidden and the participant is paused, a session
\* whose transport is 'disconnected' is torn down only by the five-minute grace timer,
\* whether the transport became disconnected before or after the pause began.
PausedGraceIsFiveMinutes ==
    [][\A p \in RmPeers :
          (/\ inactivityPaused /\ ~isPageVisible
           /\ p \in livePcs
           /\ channelState[p] = "open"
           /\ iceState[p] = "disconnected" /\ iceState'[p] = "disconnected"
           /\ p \notin livePcs')
             => disconnectTimeouts[p] = [rem |-> 0, total |-> pausedGraceTicks]]_vars

\* C19 as stated: the resume that runs when the page becomes visible after a pause
\* leaves every open channel in place, attempts exactly one rebuild for every paused
\* channel that died, starts no full reconnection, ends without an error and leaves the
\* participant out of the paused state.
ResumeRebuildsDeadChannels ==
    [][(~isPageVisible /\ isPageVisible' /\ pausedState /\ hiddenTicks >= pauseAfterTicks)
          => /\ ~resumeThrew'
             /\ ~inactivityPaused' /\ ~pausedState' /\ ~inputDisabled'
             /\ \A p \in pausedChannels :
                   rebuilds'[p] = rebuilds[p] + IF channelState[p] = "open" THEN 0 ELSE 1]_vars

(***************************************************************************)
(* Starting a group call in a room of RoomSize users.                      *)
(***************************************************************************)
RoomSize == 6       \* users in the room

RoomUsers == 1..RoomSize

StartInit ==
    /\ ElectIdle
    /\ MsgIdle
    /\ ChatIdle
    /\ RmIdle
    /\ LiveIdle
    /\ SlotIdle
    /\ TblIdle
    /\ DispIdle
    /\ IdIdle
    /\ SigIdle
    /\ LifeIdle
    /\ gcInitiator = 0
    /\ gcInvited = {}
    /\ gcState = [u \in RoomUsers |-> "idle"]
    /\ gcLoop = [u \in RoomUsers |-> <<>>]
    /\ callConnections = [u \in RoomUsers |-> [v \in RoomUsers |-> "none"]]
    /\ gcNet = [pr \in {q \in RoomUsers \X RoomUsers : q[1] # q[2]} |-> <<>>]

StartNext ==
    \E i \in RoomUsers : \E selected \in SUBSET (RoomUsers \ {i}) :
        StartGroupCall(i, selected)

SpecStart == StartInit /\ [][StartNext]_vars

\* C20 as stated: a request to start a group call with more than maxParticipants - 1
\* targets is rejected: it creates no call, sends no invite and changes no state.
OversizedStartRejected ==
    \A i \in RoomUsers : \A selected \in SUBSET (RoomUsers \ {i}) :
        Cardinality(selected) > maxParticipants - 1
           => ~ENABLED StartGroupCall(i, selected)

\* ---------------------------------------------------------------------------
\* The call slot of one participant: CallHandler (1:1 calls over the chat
\* connection) and GroupCallHandler (mesh calls over connections of their own).
\* ---------------------------------------------------------------------------

SlotUsers == {1, 3}

NoCall == <<>>

SlotInit ==
    /\ currentCall = NoCall
    /\ currentGroupCall = 0
    /\ groupConnections = {}
    /\ senders = {}
    /\ slotPeers = {}
    /\ slotChannels = {}
    /\ slotConnected = {}
    /\ lastResponse = <<>>
    /\ ElectIdle
    /\ MsgIdle
    /\ CallIdle
    /\ ChatIdle
    /\ RmIdle
    /\ LiveIdle
    /\ TblIdle
    /\ DispIdle
    /\ IdIdle
    /\ SigIdle
    /\ LifeIdle

\* The chat session of peer p changes (peer joined, connection created, channel
\* opened or closed, peer left); a closed connection loses its senders.
ChatSessionChanges(p) ==
    /\ \E joined, pc, open \in BOOLEAN :
          /\ open => pc
          /\ slotConnected' = IF joined THEN slotConnected \cup {p} ELSE slotConnected \ {p}
          /\ slotPeers' = IF pc THEN slotPeers \cup {p} ELSE slotPeers \ {p}
          /\ slotChannels' = IF open THEN slotChannels \cup {p} ELSE slotChannels \ {p}
          /\ senders' = IF pc THEN senders ELSE senders \ {p}
    /\ UNCHANGED <<currentCall, currentGroupCall, groupConnections, lastResponse>>
    /\ UNCHANGED <<electVars, msgVars, callVars, chatVars, rmVars, liveVars, tblVars, dispVars, idVars, sigVars, lifeVars>>

\* CallHandler.startCall: returns when a 1:1 call exists; the callee is the
\* first key of webrtcHandler.peers.
startCall ==
    /\ currentCall = NoCall
    /\ \E peerId \in slotPeers :
          currentCall' = [peerId |-> peerId, isCaller |-> TRUE, isActive |-> FALSE]
    /\ UNCHANGED <<currentGroupCall, groupConnections, senders,
                   slotPeers, slotChannels, slotConnected, lastResponse>>
    /\ UNCHANGED <<electVars, msgVars, callVars, chatVars, rmVars, liveVars, tblVars, dispVars, idVars, sigVars, lifeVars>>

\* CallHandler.handleIncomingCall: auto-reject when a 1:1 call exists,
\* otherwise the invitation becomes the current call and rings.
handleIncomingCall(p) ==
    /\ IF currentCall # NoCall
       THEN /\ lastResponse' = [kind |-> "call", to |-> p, accepted |-> FALSE]
            /\ UNCHANGED currentCall
       ELSE /\ currentCall' = [peerId |-> p, isCaller |-> FALSE, isActive |-> FALSE]
            /\ UNCHANGED lastResponse
    /\ UNCHANGED <<currentGroupCall, groupConnections, senders,
                   slotPeers, slotChannels, slotConnected>>
    /\ UNCHANGED <<electVars, msgVars, callVars, chatVars, rmVars, liveVars, tblVars, dispVars, idVars, sigVars, lifeVars>>

\* CallHandler.acceptCall (the callee accepts the ringing call).
acceptCall ==
    /\ currentCall # NoCall
    /\ ~currentCall.isCaller
    /\ ~currentCall.isActive
    /\ lastResponse' = [kind |-> "call", to |-> currentCall.peerId, accepted |-> TRUE]
    /\ currentCall' = [currentCall EXCEPT !.isActive = TRUE]
    /\ UNCHANGED <<currentGroupCall, groupConnections, senders,
                   slotPeers, slotChannels, slotConnected>>
    /\ UNCHANGED <<electVars, msgVars, callVars, chatVars, rmVars, liveVars, tblVars, dispVars, idVars, sigVars, lifeVars>>

\* CallHandler.handleCallAccepted: the caller marks the call active and adds its
\* media tracks to the chat connection of the callee, if there is one.
handleCallAccepted(p) ==
    /\ currentCall # NoCall
    /\ currentCall.isCaller
    /\ currentCall.peerId = p
    /\ currentCall' = [currentCall EXCEPT !.isActive = TRUE]
    /\ senders' = IF p \in slotPeers THEN senders \cup {p} ELSE senders
    /\ UNCHANGED <<currentGroupCall, groupConnections,
                   slotPeers, slotChannels, slotConnected, lastResponse>>
    /\ UNCHANGED <<electVars, msgVars, callVars, chatVars, rmVars, liveVars, tblVars, dispVars, idVars, sigVars, lifeVars>>

\* A teardown that also closed the chat connection of the call's peer.
endCallClosingSession ==
    /\ currentCall # NoCall
    /\ senders' = senders \ {currentCall.peerId}
    /\ slotPeers' = slotPeers \ {currentCall.peerId}
    /\ slotChannels' = slotChannels \ {currentCall.peerId}
    /\ currentCall' = NoCall
    /\ UNCHANGED <<currentGroupCall, groupConnections, slotConnected, lastResponse>>
    /\ UNCHANGED <<electVars, msgVars, callVars, chatVars, rmVars, liveVars, tblVars, dispVars, idVars, sigVars, lifeVars>>

\* CallHandler.endCall: removes the senders from the chat connection of the
\* call's peer and clears the slot; the connection itself stays.
endCall ==
    /\ currentCall # NoCall
    /\ senders' = senders \ {currentCall.peerId}
    /\ currentCall' = NoCall
    /\ UNCHANGED <<currentGroupCall, groupConnections,
                   slotPeers, slotChannels, slotConnected, lastResponse>>
    /\ UNCHANGED <<electVars, msgVars, callVars, chatVars, rmVars, liveVars, tblVars, dispVars, idVars, sigVars, lifeVars>>

\* GroupCallHandler.startGroupCall: returns when a group call exists or no peer
\* is available.
SlotStartGroupCall ==
    /\ currentGroupCall = 0
    /\ slotConnected # {}
    /\ currentGroupCall' = RmSelf
    /\ UNCHANGED <<currentCall, groupConnections, senders,
                   slotPeers, slotChannels, slotConnected, lastResponse>>
    /\ UNCHANGED <<electVars, msgVars, callVars, chatVars, rmVars, liveVars, tblVars, dispVars, idVars, sigVars, lifeVars>>

\* GroupCallHandler.handleGroupCallInvite with acceptGroupCall / rejectGroupCall:
\* auto-reject when a group call exists, otherwise the user's choice.
handleGroupCallInvite(p) ==
    /\ IF currentGroupCall # 0
       THEN /\ lastResponse' = [kind |-> "group", to |-> p, accepted |-> FALSE]
            /\ UNCHANGED currentGroupCall
       ELSE \E accept \in BOOLEAN :
              /\ lastResponse' = [kind |-> "group", to |-> p, accepted |-> accept]
              /\ currentGroupCall' = IF accept THEN p ELSE 0
    /\ UNCHANGED <<currentCall, groupConnections, senders,
                   slotPeers, slotChannels, slotConnected>>
    /\ UNCHANGED <<electVars, msgVars, callVars, chatVars, rmVars, liveVars, tblVars, dispVars, idVars, sigVars, lifeVars>>

\* GroupCallHandler.connectToParticipant: a call connection to participant p.
connectToParticipant(p) ==
    /\ currentGroupCall # 0
    /\ p \notin groupConnections
    /\ groupConnections' = groupConnections \cup {p}
    /\ UNCHANGED <<currentCall, currentGroupCall, senders,
                   slotPeers, slotChannels, slotConnected, lastResponse>>
    /\ UNCHANGED <<electVars, msgVars, callVars, chatVars, rmVars, liveVars, tblVars, dispVars, idVars, sigVars, lifeVars>>

\* GroupCallHandler.cleanup, reached from endGroupCall and handleGroupCallEnd:
\* closes and forgets every call connection and clears the group call.
cleanup ==
    /\ currentGroupCall # 0
    /\ groupConnections' = {}
    /\ currentGroupCall' = 0
    /\ UNCHANGED <<currentCall, senders,
                   slotPeers, slotChannels, slotConnected, lastResponse>>
    /\ UNCHANGED <<electVars, msgVars, callVars, chatVars, rmVars, liveVars, tblVars, dispVars, idVars, sigVars, lifeVars>>

SlotNext ==
    \/ \E p \in SlotUsers : ChatSessionChanges(p)
    \/ startCall
    \/ \E p \in SlotUsers : handleIncomingCall(p)
    \/ acceptCall
    \/ \E p \in SlotUsers : handleCallAccepted(p)
    \/ endCall
    \/ SlotStartGroupCall
    \/ \E p \in SlotUsers : handleGroupCallInvite(p)
    \/ \E p \in SlotUsers : connectToParticipant(p)
    \/ cleanup

SpecSlot == SlotInit /\ [][SlotNext]_vars

\* C21: at no time does the participant hold a 1:1 call and a group call
\* together; a start-call request or an invitation of either kind that arrives
\* while a call exists is turned down and leaves the existing call as it is.
OneCallAtATime == ~(currentCall # NoCall /\ currentGroupCall # 0)

MaxPending == 2     \* candidates buffered per peer

TblInit ==
    /\ tblPeers = [p \in RmPeers |-> "none"]
    /\ tblChannels = {}
    /\ tblPending = [p \in RmPeers |-> 0]
    /\ tblTimeouts = {}
    /\ tblInitiator = [p \in RmPeers |-> "unset"]
    /\ tblConnected = {}
    /\ tblLast = [op |-> "none", peer |-> 0]
    /\ ElectIdle
    /\ MsgIdle
    /\ CallIdle
    /\ ChatIdle
    /\ RmIdle
    /\ LiveIdle
    /\ SlotIdle
    /\ DispIdle
    /\ IdIdle
    /\ SigIdle
    /\ LifeIdle

\* A cleanup that clears the tables instead of deleting the peer's entries.
TblCleanupAll(t, p) ==
    [peers |-> [q \in RmPeers |-> "none"], channels |-> {},
     pending |-> [q \in RmPeers |-> 0], timeouts |-> {},
     initiator |-> [q \in RmPeers |-> "unset"]]

\* WebRTCHandler.cleanupPeer(p) applied to the tables t: the peer's grace
\* timer, data channel, connection, initiator flag and buffered candidates go.
TblCleanupPeer(t, p) ==
    [peers |-> [t.peers EXCEPT ![p] = "none"],
     channels |-> t.channels \ {p},
     pending |-> [t.pending EXCEPT ![p] = 0],
     timeouts |-> t.timeouts \ {p},
     initiator |-> [t.initiator EXCEPT ![p] = "unset"]]

\* WebRTCHandler.createPeerConnection(p, isInitiator) applied to the tables t:
\* an existing connection is cleaned up first; the initiator goes on to its
\* offer.
TblCreated(t, p, isInitiator) ==
    LET c == IF t.peers[p] # "none" THEN TblCleanupPeer(t, p) ELSE t
    IN  [c EXCEPT !.initiator[p] = IF isInitiator THEN "true" ELSE "false",
                  !.peers[p] = IF isInitiator THEN "have-local-offer" ELSE "stable"]

TblNow ==
    [peers |-> tblPeers, channels |-> tblChannels, pending |-> tblPending,
     timeouts |-> tblTimeouts, initiator |-> tblInitiator]

TblBecomes(t) ==
    /\ tblPeers' = t.peers
    /\ tblChannels' = t.channels
    /\ tblPending' = t.pending
    /\ tblTimeouts' = t.timeouts
    /\ tblInitiator' = t.initiator

\* establishConnectionWithRetry / onPeerJoined: createPeerConnection(p, true).
TblConnect(p) ==
    /\ TblBecomes(TblCreated(TblNow, p, TRUE))
    /\ tblLast' = [op |-> "connect", peer |-> p]
    /\ UNCHANGED tblConnected
    /\ UNCHANGED <<electVars, msgVars, callVars, chatVars, rmVars, liveVars, slotVars, dispVars, idVars, sigVars, lifeVars>>

\* WebRTCHandler.handleSignal(p, signal) for the three types; with fails the
\* description or candidate call throws and the handler's catch logs it.
TblHandleSignal(p) ==
    /\ \E type \in {"offer", "answer", "ice-candidate"}, fails \in BOOLEAN :
          LET made == IF type # "answer" /\ tblPeers[p] = "none"
                      THEN TblCreated(TblNow, p, FALSE) ELSE TblNow
              applies == /\ ~fails
                         /\ \/ type = "offer"
                            \/ type = "answer" /\ made.peers[p] = "have-local-offer"
              buffers == /\ ~fails
                         /\ type = "ice-candidate"
                         /\ made.peers[p] # "remote"
          IN  /\ buffers => made.pending[p] < MaxPending
              /\ TblBecomes(
                    IF applies
                    THEN [made EXCEPT !.peers[p] = "remote", !.pending[p] = 0]
                    ELSE IF buffers
                    THEN [made EXCEPT !.pending[p] = @ + 1]
                    ELSE made)
              /\ tblLast' = [op |-> IF fails THEN "signal-error" ELSE type, peer |-> p]
    /\ UNCHANGED tblConnected
    /\ UNCHANGED <<electVars, msgVars, callVars, chatVars, rmVars, liveVars, slotVars, dispVars, idVars, sigVars, lifeVars>>

\* dataChannel.onopen for p: the channel is registered, handlePeerConnected.
TblChannelOpen(p) ==
    /\ tblPeers[p] = "remote"
    /\ p \notin tblChannels
    /\ tblChannels' = tblChannels \cup {p}
    /\ tblConnected' = tblConnected \cup {p}
    /\ tblLast' = [op |-> "open", peer |-> p]
    /\ UNCHANGED <<tblPeers, tblPending, tblTimeouts, tblInitiator>>
    /\ UNCHANGED <<electVars, msgVars, callVars, chatVars, rmVars, liveVars, slotVars, dispVars, idVars, sigVars, lifeVars>>

\* oniceconnectionstatechange 'disconnected' for p: the grace timer is set.
TblTransportDisconnected(p) ==
    /\ tblPeers[p] = "remote"
    /\ p \notin tblTimeouts
    /\ tblTimeouts' = tblTimeouts \cup {p}
    /\ tblLast' = [op |-> "grace", peer |-> p]
    /\ UNCHANGED <<tblPeers, tblChannels, tblPending, tblInitiator, tblConnected>>
    /\ UNCHANGED <<electVars, msgVars, callVars, chatVars, rmVars, liveVars, slotVars, dispVars, idVars, sigVars, lifeVars>>

\* WebRTCHandler.cleanupPeer(p) alone (disconnect), or inside
\* handlePeerDisconnected(p), which also takes p out of connectedPeers.
TblTeardown(p) ==
    /\ TblBecomes(TblCleanupPeer(TblNow, p))
    /\ \E callback \in BOOLEAN :
          /\ tblConnected' = IF callback THEN tblConnected \ {p} ELSE tblConnected
          /\ tblLast' = [op |-> IF callback THEN "disconnected" ELSE "cleanup", peer |-> p]
    /\ UNCHANGED <<electVars, msgVars, callVars, chatVars, rmVars, liveVars, slotVars, dispVars, idVars, sigVars, lifeVars>>

TblNext ==
    \E p \in RmPeers :
        \/ TblConnect(p)
        \/ TblHandleSignal(p)
        \/ TblChannelOpen(p)
        \/ TblTransportDisconnected(p)
        \/ TblTeardown(p)

SpecTable == TblInit /\ [][TblNext]_vars

\* C23: a step that tears down the session of peer p (cleanupPeer,
\* handlePeerDisconnected) or fails while handling a signal from p leaves the
\* connection, data channel, buffered candidates, grace timer and initiator flag
\* of every other peer as they were.
TeardownTouchesOnePeer ==
    [][tblLast'.op \in {"cleanup", "disconnected", "signal-error"}
          => \A q \in RmPeers \ {tblLast'.peer} :
                /\ tblPeers'[q] = tblPeers[q]
                /\ (q \in tblChannels') = (q \in tblChannels)
                /\ tblPending'[q] = tblPending[q]
                /\ (q \in tblTimeouts') = (q \in tblTimeouts)
                /\ tblInitiator'[q] = tblInitiator[q]]_vars

\* C23 witness: peer 1 has just been torn down while peer 3 holds a connection,
\* an open channel, a grace timer and an initiator flag.
TornBesideLiveSession ==
    /\ tblLast = [op |-> "disconnected", peer |-> 1]
    /\ tblPeers[1] = "none"
    /\ tblPeers[3] = "remote"
    /\ 3 \in tblChannels
    /\ 3 \in tblTimeouts
    /\ tblInitiator[3] = "true"

\* C23 witness for buffered candidates: a signal from peer 1 failed while
\* peer 3 has candidates buffered.
FailedBesideBufferedCandidates ==
    /\ tblLast = [op |-> "signal-error", peer |-> 1]
    /\ tblPending[3] = MaxPending

\* ---------------------------------------------------------------------------
\* Dispatch of data channel payloads by their `type`.  A type is the sequence of
\* its parts between dashes, <<>> for a payload without the field.
\* ---------------------------------------------------------------------------

MaxIds == 3         \* message ids 1..MaxIds, 0 for a payload without id

\* The types some sender of this program produces: the chat message (no type
\* field), the connection test, typing, file transfer, 1:1 call and group call.
KnownTypes ==
    {<<>>, <<"connection_test">>, <<"typing">>,
     <<"file", "metadata">>, <<"file", "chunk">>, <<"file", "complete">>,
     <<"call", "invite">>, <<"call", "accept">>, <<"call", "reject">>,
     <<"call", "end">>, <<"media", "offer">>, <<"media", "answer">>,
     <<"group", "call", "invite">>, <<"group", "call", "end">>}

\* Types nobody produces.
UnknownTypes ==
    {<<"ping">>, <<"call">>, <<"call", "bogus">>, <<"group", "call", "bogus">>,
     <<"file">>, <<"status">>}

Payloads == [type : KnownTypes \cup UnknownTypes, id : 0..MaxIds]

\* String.prototype.startsWith(prefix + '-') on a type given by its parts.
StartsWith(type, prefix) ==
    /\ Len(type) > Len(prefix)
    /\ SubSeq(type, 1, Len(prefix)) = prefix

DispInit ==
    /\ dispMessages = {}
    /\ dispCallbacks = 0
    /\ dispStatus = "disconnected"
    /\ dispRouted = "none"
    /\ dispLast = <<>>
    /\ ElectIdle
    /\ MsgIdle
    /\ CallIdle
    /\ ChatIdle
    /\ RmIdle
    /\ LiveIdle
    /\ SlotIdle
    /\ TblIdle
    /\ IdIdle
    /\ SigIdle
    /\ LifeIdle

\* The handler the app's onMessage callback gives a payload of this type to.
RouteOf(type) ==
    IF type = <<"connection_test">> THEN "none"
    ELSE IF StartsWith(type, <<"call">>) \/ StartsWith(type, <<"media">>) THEN "callHandler"
    ELSE IF StartsWith(type, <<"group", "call">>) THEN "groupCallHandler"
    ELSE IF type = <<"typing">> THEN "typing"
    ELSE IF type \in {<<"file", "metadata">>, <<"file", "chunk">>, <<"file", "complete">>}
    THEN "fileHandler"
    ELSE "receiveMessage"

\* dataChannel.onmessage with the app's onMessage callback and
\* MessageHandler.receiveMessage(message, 'webrtc').
OnMessage(m) ==
    /\ dispLast' = m
    /\ dispRouted' = RouteOf(m.type)
    /\ IF RouteOf(m.type) = "receiveMessage" /\ m.id \notin dispMessages
       THEN /\ dispMessages' = dispMessages \cup {m.id}
            /\ dispCallbacks' = dispCallbacks + 1
            /\ dispStatus' = "connected"
       ELSE UNCHANGED <<dispMessages, dispCallbacks, dispStatus>>
    /\ UNCHANGED <<electVars, msgVars, callVars, chatVars, rmVars, liveVars, slotVars, tblVars, idVars, sigVars, lifeVars>>

\* The peer-disconnected callback of the app with no connection left.
StatusDisconnected ==
    /\ dispStatus = "connected"
    /\ dispStatus' = "disconnected"
    /\ dispLast' = <<>>
    /\ dispRouted' = "none"
    /\ UNCHANGED <<dispMessages, dispCallbacks>>
    /\ UNCHANGED <<electVars, msgVars, callVars, chatVars, rmVars, liveVars, slotVars, tblVars, idVars, sigVars, lifeVars>>

DispNext ==
    \/ \E m \in Payloads : OnMessage(m)
    \/ StatusDisconnected

SpecDispatch == DispInit /\ [][DispNext]_vars

\* C24: a payload whose type is not a known type is ignored: it is not handed
\* to the message callbacks as a chat message, the set of seen message ids does
\* not change and the connection status does not change.
UnknownTypeIgnored ==
    [][(dispLast' # <<>> /\ dispLast'.type \in UnknownTypes)
          => UNCHANGED <<dispMessages, dispCallbacks, dispStatus>>]_vars

\* ---------------------------------------------------------------------------
\* Manual reconnection with a fresh identity, and the old identity's presence
\* record and signal mailbox at the relay.
\* ---------------------------------------------------------------------------

MaxIdentities == 4      \* identities issued to the app in a behaviour

MrInit ==
    /\ mrUsers = {1}
    /\ mrSignals = {}
    /\ mrOthers \in BOOLEAN
    /\ mrUserId = 1
    /\ mrOldUserId = 0
    /\ mrStep = "idle"
    /\ mrHasCleanup \in BOOLEAN
    /\ ElectIdle
    /\ MsgIdle
    /\ CallIdle
    /\ ChatIdle
    /\ RmIdle
    /\ LiveIdle
    /\ SlotIdle
    /\ TblIdle
    /\ DispIdle
    /\ SigIdle
    /\ LifeIdle

\* manualReconnect, step 1 up to the end of FirebaseHandler.leaveRoom: the
\* presence record of the current identity is removed; when no user is left the
\* room is removed or reduced to its messages, the mailboxes with it.
MrLeaveRoom ==
    /\ mrStep \in {"idle", "failed"}
    /\ mrUserId < MaxIdentities
    /\ mrUsers' = mrUsers \ {mrUserId}
    /\ mrSignals' = IF ~mrOthers /\ mrUsers' = {} THEN {} ELSE mrSignals
    /\ mrStep' = "left"
    /\ UNCHANGED <<mrOthers, mrUserId, mrOldUserId, mrHasCleanup>>
    /\ UNCHANGED <<electVars, msgVars, callVars, chatVars, rmVars, liveVars, slotVars, tblVars, dispVars, sigVars, lifeVars>>

\* manualReconnect from callHandler.cleanup() to the end of joinRoom: a
\* CallHandler without cleanup() throws; otherwise the fresh identity is issued
\* and joinRoom writes its presence, or fails.
MrRejoin ==
    /\ mrStep = "left"
    /\ IF ~mrHasCleanup
       THEN /\ mrStep' = "failed"
            /\ UNCHANGED <<mrUsers, mrUserId, mrOldUserId>>
       ELSE /\ mrOldUserId' = mrUserId
            /\ mrUserId' = mrUserId + 1
            /\ \E written \in BOOLEAN :
                  /\ mrUsers' = IF written THEN mrUsers \cup {mrUserId + 1} ELSE mrUsers
                  /\ mrStep' = IF written THEN "joined" ELSE "failed"
    /\ UNCHANGED <<mrSignals, mrOthers, mrHasCleanup>>
    /\ UNCHANGED <<electVars, msgVars, callVars, chatVars, rmVars, liveVars, slotVars, tblVars, dispVars, sigVars, lifeVars>>

\* manualReconnect, step 4: the old identity's presence record and mailbox are
\* removed and the reconnection reports success.
MrCleanGhost ==
    /\ mrStep = "joined"
    /\ mrUsers' = mrUsers \ {mrOldUserId}
    /\ mrSignals' = mrSignals \ {mrOldUserId}
    /\ mrStep' = "reconnected"
    /\ UNCHANGED <<mrOthers, mrUserId, mrOldUserId, mrHasCleanup>>
    /\ UNCHANGED <<electVars, msgVars, callVars, chatVars, rmVars, liveVars, slotVars, tblVars, dispVars, sigVars, lifeVars>>

\* The user sees the result; the reconnect button is enabled again.
MrSettled ==
    /\ mrStep = "reconnected"
    /\ mrStep' = "idle"
    /\ UNCHANGED <<mrUsers, mrSignals, mrOthers, mrUserId, mrOldUserId, mrHasCleanup>>
    /\ UNCHANGED <<electVars, msgVars, callVars, chatVars, rmVars, liveVars, slotVars, tblVars, dispVars, sigVars, lifeVars>>

\* Another user of the room sends a signal to an identity it saw join
\* (FirebaseHandler.sendSignal pushes into signals/<id>).
MrPeerSendsSignal(id) ==
    /\ mrOthers
    /\ id <= mrUserId
    /\ id \notin mrSignals
    /\ mrSignals' = mrSignals \cup {id}
    /\ UNCHANGED <<mrUsers, mrOthers, mrUserId, mrOldUserId, mrStep, mrHasCleanup>>
    /\ UNCHANGED <<electVars, msgVars, callVars, chatVars, rmVars, liveVars, slotVars, tblVars, dispVars, sigVars, lifeVars>>

\* The app's signal listener consumes and deletes the entries of its mailbox.
MrSignalsConsumed ==
    /\ mrStep \in {"idle", "reconnected"}
    /\ mrUserId \in mrSignals
    /\ mrSignals' = mrSignals \ {mrUserId}
    /\ UNCHANGED <<mrUsers, mrOthers, mrUserId, mrOldUserId, mrStep, mrHasCleanup>>
    /\ UNCHANGED <<electVars, msgVars, callVars, chatVars, rmVars, liveVars, slotVars, tblVars, dispVars, sigVars, lifeVars>>

MrNext ==
    \/ MrLeaveRoom
    \/ MrRejoin
    \/ MrCleanGhost
    \/ MrSettled
    \/ \E id \in 1..MaxIdentities : MrPeerSendsSignal(id)
    \/ MrSignalsConsumed

SpecIdentity == MrInit /\ [][MrNext]_vars

\* C26: during a manual reconnection the presence record and the mailbox of an
\* identity are deleted only when the presence of a newer identity has been
\* written, and when the reconnection reports success the room holds the new
\* identity and neither presence record nor mailbox of the old one.
OldIdentityDeletedAfterNew ==
    [][/\ \A id \in 1..MaxIdentities :
             ((id \in mrUsers /\ id \notin mrUsers')
                 \/ (id < mrUserId' /\ id \in mrSignals /\ id \notin mrSignals'))
               => \E new \in mrUsers : new > id
       /\ mrStep' = "reconnected"
             => /\ mrUserId' \in mrUsers'
                /\ mrOldUserId' \notin mrUsers'
                /\ mrOldUserId' \notin mrSignals']_vars

\* ---------------------------------------------------------------------------
\* The signal mailbox and its listener.
\* ---------------------------------------------------------------------------

MaxSignals == 3         \* entries pushed into the mailbox
MaxRepeats == 1         \* notifications repeated for an entry under deletion
MaxSigRejoins == 1      \* times the app leaves and joins the room again

SignalsCap == 100       \* processedSignals.size > 100 starts the pruning
SignalsDrop == 50       \* ... of the 50 oldest ids

Signals == 1..MaxSignals

SigInit ==
    /\ sigBox = [e \in Signals |-> "none"]
    /\ processedSignals = <<>>
    /\ sigNotified = {}
    /\ sigHanded = [e \in Signals |-> 0]
    /\ sigRepeats = 0
    /\ sigRejoins = 0
    /\ ElectIdle
    /\ MsgIdle
    /\ CallIdle
    /\ ChatIdle
    /\ RmIdle
    /\ LiveIdle
    /\ SlotIdle
    /\ TblIdle
    /\ DispIdle
    /\ IdIdle
    /\ LifeIdle

\* FirebaseHandler.sendSignal at a peer: the next entry is pushed.
SigPushed(e) ==
    /\ sigBox[e] = "none"
    /\ \A d \in Signals : d < e => sigBox[d] # "none"
    /\ sigBox' = [sigBox EXCEPT ![e] = "stored"]
    /\ UNCHANGED <<processedSignals, sigNotified, sigHanded, sigRepeats, sigRejoins>>
    /\ UNCHANGED <<electVars, msgVars, callVars, chatVars, rmVars, liveVars, slotVars, tblVars, dispVars, idVars, lifeVars>>

\* The child_added callback of listenForSignals for entry e: a remembered id is
\* only removed again; otherwise the id is remembered, remove() is issued, the
\* entry goes to the signal callback and the remembered ids are pruned.
SigHandler(e) ==
    LET seen == {processedSignals[i] : i \in DOMAIN processedSignals}
        added == Append(processedSignals, e)
    IN  /\ sigBox' = [sigBox EXCEPT ![e] = "removing"]
        /\ IF e \in seen
           THEN UNCHANGED <<processedSignals, sigHanded>>
           ELSE /\ sigHanded' = [sigHanded EXCEPT ![e] = @ + 1]
                /\ processedSignals' =
                      IF Len(added) > SignalsCap
                      THEN SubSeq(added, SignalsDrop + 1, Len(added))
                      ELSE added

\* The relay notifies the registered listener of an entry of the mailbox.
SigChildAdded(e) ==
    /\ sigBox[e] \in {"stored", "removing"}
    /\ e \notin sigNotified
    /\ sigNotified' = sigNotified \cup {e}
    /\ SigHandler(e)
    /\ UNCHANGED <<sigRepeats, sigRejoins>>
    /\ UNCHANGED <<electVars, msgVars, callVars, chatVars, rmVars, liveVars, slotVars, tblVars, dispVars, idVars, lifeVars>>

\* The notification for an entry fires again before its deletion has completed.
SigChildAddedAgain(e) ==
    /\ sigBox[e] = "removing"
    /\ e \in sigNotified
    /\ sigRepeats < MaxRepeats
    /\ sigRepeats' = sigRepeats + 1
    /\ SigHandler(e)
    /\ UNCHANGED <<sigNotified, sigRejoins>>
    /\ UNCHANGED <<electVars, msgVars, callVars, chatVars, rmVars, liveVars, slotVars, tblVars, dispVars, idVars, lifeVars>>

\* The relay completes the deletion of an entry.
SigRemoved(e) ==
    /\ sigBox[e] = "removing"
    /\ sigBox' = [sigBox EXCEPT ![e] = "gone"]
    /\ UNCHANGED <<processedSignals, sigNotified, sigHanded, sigRepeats, sigRejoins>>
    /\ UNCHANGED <<electVars, msgVars, callVars, chatVars, rmVars, liveVars, slotVars, tblVars, dispVars, idVars, lifeVars>>

\* The app leaves the room and joins it again under the same identity:
\* leaveRoom removes the listener and clears processedSignals, joinRoom
\* registers a new listener on the same mailbox.
SigRejoin ==
    /\ sigRejoins < MaxSigRejoins
    /\ sigRejoins' = sigRejoins + 1
    /\ processedSignals' = <<>>
    /\ sigNotified' = {}
    /\ UNCHANGED <<sigBox, sigHanded, sigRepeats>>
    /\ UNCHANGED <<electVars, msgVars, callVars, chatVars, rmVars, liveVars, slotVars, tblVars, dispVars, idVars, lifeVars>>

SigNext ==
    \/ \E e \in Signals :
          \/ SigPushed(e)
          \/ SigChildAdded(e)
          \/ SigChildAddedAgain(e)
          \/ SigRemoved(e)
    \/ SigRejoin

SpecSignals == SigInit /\ [][SigNext]_vars

\* C25: every mailbox entry goes to the signal callback at most once, also when
\* its notification fires again before the deletion has completed, and every
\* entry that went to the callback is deleted or under deletion.
SignalHandedAtMostOnce ==
    \A e \in Signals :
        /\ sigHanded[e] <= 1
        /\ sigHanded[e] > 0 => sigBox[e] \in {"removing", "gone"}

\* C27: once the session to the peer is closed because the peer left the room,
\* nothing started for that session acts on the peer: its buffered candidates
\* are discarded with the session, and no retry loop or pending start opens a
\* further connection (sends a further offer) to a peer that is no longer in
\* P2PChatApp.peers.
ClosedSessionStaysQuiet ==
    [][\A u \in ChatUsers :
          /\ (appPeers[u] /\ ~appPeers'[u]) => pendingCandidates'[u] = {}
          /\ (created'[u] > created[u] /\ peers'[u].init) => appPeers[u]]_vars

\* C28: an answer is applied (remote description set, buffered candidates
\* flushed) only to a connection whose signaling state is have-local-offer; an
\* answer that arrives when no connection is registered or the connection is in
\* another state (a second answer, an answer after the connection is stable) is
\* dropped and changes nothing of the session.
AnswerOnlyInHaveLocalOffer ==
    [][\A u \in ChatUsers :
          /\ (/\ NextSignal(u, "answer")
              /\ mailbox'[u] = Tail(mailbox[u])
              /\ ~(HasPc(u) /\ peers[u].sig = "have-local-offer"))
                => /\ busy'[u] = NoBusy
                   /\ peers'[u] = peers[u]
                   /\ dataChannels'[u] = dataChannels[u]
                   /\ pendingCandidates'[u] = pendingCandidates[u]
                   /\ candLog'[u] = candLog[u]
          /\ (busy[u].kind = "answer" /\ peers'[u].rd # peers[u].rd /\ peers'[u].gen = peers[u].gen)
                => /\ peers[u].sig = "have-local-offer"
                   /\ peers'[u].sig = "stable"
                   /\ pendingCandidates'[u] = {}]_vars

\* C28 witness: an answer is next in the mailbox of a participant whose
\* connection is already stable with a remote description, and another answer
\* has been applied before.
AnswerAtStableConnection ==
    \E u \in ChatUsers :
        /\ NextSignal(u, "answer")
        /\ busy[u] = NoBusy
        /\ HasPc(u)
        /\ peers[u].sig = "stable"
        /\ peers[u].rd # 0
        /\ peers[u].init

\* C29: an answer made for the offer of a connection that has since been
\* retired (replaced by the connection of a later attempt) is dropped: the
\* answer a connection has applied is always the answer to its own offer.
StaleAnswerDropped ==
    \A u \in ChatUsers :
        (HasPc(u) /\ peers[u].ansFor # 0) => peers[u].ansFor = peers[u].gen

\* C30: in state idle a health check that finds at least one known peer and no
\* open session, or finds the signaling channel offline (the room reference may
\* still be held), moves the manager to 'detecting'; a health check that finds
\* neither leaves it idle.
HealthCheckDetectsLoss ==
    [][(healthTimer = 0 /\ healthTimer' = healthCheckInterval /\ reconnectionState = "idle")
          => reconnectionState' =
                IF (RmPeers # {} /\ rmConnected = {}) \/ ~rmFirebase
                THEN "detecting" ELSE "idle"]_vars

(***************************************************************************)
(* Further properties of the reconnection manager.                         *)
(***************************************************************************)

\* C31 as stated: a timer starts an attempt from 'detecting' only if the loss
\* condition the health check tests still holds at that moment; when connectivity
\* has recovered in the meantime no attempt is started.
AttemptOnlyIfLossPersists ==
    [][(/\ reconnectionState = "detecting"
        /\ reconnectionState' = "reconnecting"
        /\ rmManuals' = rmManuals)
          => NeedsReconnection]_vars

\* C32 as stated: the verification of an attempt ends in 'connected' exactly when the
\* relay is online and either no peer is known or at least one session is open.
VerifiedIffPresenceAndSession ==
    [][(rmPhase.name = "verify" /\ rmPhase'.name = "none")
          => (reconnectionState' = "connected"
                <=> (rmFirebase /\ (RmPeers = {} \/ rmConnected # {})))]_vars

\* C37 as stated: no timer starts an attempt while the state is 'connected'.
NoAttemptFromConnected ==
    [][(reconnectionState = "connected" /\ rmManuals' = rmManuals)
          => reconnectionState' # "reconnecting"]_vars

\* C40: at most one attempt is in progress.  The phases of an attempt run only in
\* state 'reconnecting', and an attempt enters its first phase only when no attempt
\* is running, whichever of the health check, the timers and manualReconnect asks.
OneAttemptAtATime ==
    [][/\ rmPhase.name # "none" => reconnectionState = "reconnecting"
       /\ (rmPhase'.name = "firebase" /\ rmPhase.name # "firebase")
             => (rmPhase.name = "none" /\ reconnectionState # "reconnecting")
       /\ (rmPhase.name = "firebase" /\ rmPhase'.name = "firebase")
             => reconnectionAttempts' <= reconnectionAttempts]_vars

\* C40 witness: an attempt is waiting for sessions while the health check and a
\* backoff timer of an earlier failure are due
TimerDueDuringAttempt ==
    /\ reconnectionState = "reconnecting"
    /\ rmPhase.name = "rtcwait"
    /\ healthTimer = 0
    /\ \E i \in DOMAIN reconnectionTimers : reconnectionTimers[i].rem = 0

\* C34 as stated: a participant creates a call connection for a peer, and sends it an
\* offer, only while it holds no call connection for that peer; so it creates at most
\* one per peer and call, and a participant-joined message about a peer it already
\* holds a connection for opens nothing.
OneCallConnectionPerPeer ==
    [][\A pr \in CallPairs :
          (/\ Len(gcNet'[pr]) > Len(gcNet[pr])
           /\ gcNet'[pr][Len(gcNet'[pr])].type = "offer")
             => callConnections[pr[1]][pr[2]] = "none"]_vars

\* ---------------------------------------------------------------------------
\* The life of the group call of one participant (GroupCallHandler of RmSelf
\* in a room with RmPeers).  A call started locally has the id 1..MaxStarts,
\* the call a peer p invites to has the id RemoteCall(p).  A handler that
\* returns at once because the message does not name the current call changes
\* nothing and is left out, as are timers: a timer may fire at any point after
\* it was set, and two pending timers of one kind set under the same call are
\* not told apart.
\* ---------------------------------------------------------------------------

MaxStarts == 1      \* group calls the participant starts itself

RemoteCall(p) == 10 + p

NoGroupCall == [id |-> 0, initiator |-> 0, participants |-> {}]

LcRan(op, peer) == lcLast' = [op |-> op, peer |-> peer]

LifeInit ==
    /\ lcCall = NoGroupCall
    /\ lcPending = {}
    /\ lcConnections = {}
    /\ lcParticipants = {}
    /\ lcTimers = {}
    /\ lcReplies = {}
    /\ lcInvited = {}
    /\ lcStarts = 0
    /\ lcLast = [op |-> "none", peer |-> 0]
    /\ ElectIdle
    /\ MsgIdle
    /\ CallIdle
    /\ ChatIdle
    /\ RmIdle
    /\ LiveIdle
    /\ SlotIdle
    /\ TblIdle
    /\ DispIdle
    /\ IdIdle
    /\ SigIdle

\* GroupCallHandler.cleanup
LcCleanup ==
    /\ lcConnections' = {}
    /\ lcParticipants' = {}
    /\ lcCall' = NoGroupCall

\* GroupCallHandler.endGroupCall
LcEndGroupCall ==
    IF lcCall.id = 0
    THEN UNCHANGED <<lcCall, lcConnections, lcParticipants>>
    ELSE LcCleanup

\* the connection handleGroupCallAccept and handleParticipantJoined open towards
\* peer p: none when one is stored or when p has the smaller id
LcConnectIfNeeded(p) ==
    IF p \notin lcConnections /\ ParticipantJoinedShouldInitiate(<<RmSelf>>, <<p>>)
    THEN lcConnections \cup {p}
    ELSE lcConnections

\* GroupCallHandler.startGroupCall up to its await of getUserMedia
LcStartGroupCall(selected) ==
    /\ lcCall.id = 0
    /\ lcStarts < MaxStarts
    /\ selected # {}
    /\ lcStarts' = lcStarts + 1
    /\ lcPending' = lcPending \cup
          {[kind |-> "start", id |-> lcStarts + 1, from |-> RmSelf, members |-> selected]}
    /\ LcRan("start", 0)
    /\ UNCHANGED <<lcCall, lcConnections, lcParticipants, lcTimers, lcReplies, lcInvited>>
    /\ UNCHANGED <<electVars, msgVars, callVars, chatVars, rmVars, liveVars, slotVars, tblVars, dispVars, idVars, sigVars>>

\* GroupCallHandler.handleGroupCallInvite up to acceptGroupCall's await of
\* getUserMedia: the invite of peer `from` naming `members`
LcHandleInvite(from, members) ==
    /\ RemoteCall(from) \notin lcInvited
    /\ {from, RmSelf} \subseteq members
    /\ lcInvited' = lcInvited \cup {RemoteCall(from)}
    /\ \E accept \in BOOLEAN :
          IF lcCall.id # 0 \/ ~accept
          THEN /\ lcReplies' = lcReplies \cup
                     {[id |-> RemoteCall(from), accepted |-> FALSE]}
               /\ UNCHANGED lcPending
          ELSE /\ lcPending' = lcPending \cup
                     {[kind |-> "accept", id |-> RemoteCall(from), from |-> from,
                       members |-> members]}
               /\ UNCHANGED lcReplies
    /\ LcRan("invite", from)
    /\ UNCHANGED <<lcCall, lcConnections, lcParticipants, lcTimers, lcStarts>>
    /\ UNCHANGED <<electVars, msgVars, callVars, chatVars, rmVars, liveVars, slotVars, tblVars, dispVars, idVars, sigVars>>

\* getUserMedia settles for a waiting startGroupCall or acceptGroupCall and the
\* rest of the function runs: the call is recorded, and the starter sets the
\* 30 s response timer while the acceptor answers and runs its connect loop;
\* on a rejection the catch block calls endGroupCall
LcMediaSettles(op, granted) ==
    /\ op \in lcPending
    /\ lcPending' = lcPending \ {op}
    /\ IF ~granted
       THEN /\ LcEndGroupCall
            /\ UNCHANGED <<lcTimers, lcReplies>>
       ELSE IF op.kind = "start"
       THEN /\ lcCall' = [id |-> op.id, initiator |-> RmSelf,
                          participants |-> {RmSelf} \cup op.members]
            /\ lcTimers' = lcTimers \cup {[kind |-> "response", call |-> op.id]}
            /\ UNCHANGED <<lcConnections, lcParticipants, lcReplies>>
       ELSE /\ lcCall' = [id |-> op.id, initiator |-> op.from,
                          participants |-> op.members \cup {op.from}]
            /\ lcReplies' = lcReplies \cup {[id |-> op.id, accepted |-> TRUE]}
            /\ lcConnections' = lcConnections \cup
                  {p \in op.members \ {RmSelf} :
                      AcceptShouldInitiate(<<RmSelf>>, <<p>>)}
            /\ UNCHANGED <<lcParticipants, lcTimers>>
    /\ LcRan("media", 0)
    /\ UNCHANGED <<lcInvited, lcStarts>>
    /\ UNCHANGED <<electVars, msgVars, callVars, chatVars, rmVars, liveVars, slotVars, tblVars, dispVars, idVars, sigVars>>

\* GroupCallHandler.handleGroupCallAccept: the accept of invited peer p for the
\* call the participant started
LcHandleAccept(p) ==
    /\ lcCall.id # 0
    /\ lcCall.initiator = RmSelf
    /\ lcCall' = [lcCall EXCEPT !.participants = @ \cup {p}]
    /\ lcConnections' = LcConnectIfNeeded(p)
    /\ LcRan("accept", p)
    /\ UNCHANGED <<lcPending, lcParticipants, lcTimers, lcReplies, lcInvited, lcStarts>>
    /\ UNCHANGED <<electVars, msgVars, callVars, chatVars, rmVars, liveVars, slotVars, tblVars, dispVars, idVars, sigVars>>

\* GroupCallHandler.handleGroupCallReject: peer p rejected the current call
LcHandleReject(p) ==
    /\ lcCall.id # 0
    /\ lcCall' = [lcCall EXCEPT !.participants = @ \ {p}]
    /\ lcTimers' = IF lcCall'.participants = {}
                   THEN lcTimers \cup {[kind |-> "end", call |-> lcCall.id]}
                   ELSE lcTimers
    /\ LcRan("reject", p)
    /\ UNCHANGED <<lcPending, lcConnections, lcParticipants, lcReplies, lcInvited, lcStarts>>
    /\ UNCHANGED <<electVars, msgVars, callVars, chatVars, rmVars, liveVars, slotVars, tblVars, dispVars, idVars, sigVars>>

\* GroupCallHandler.handleGroupCallOffer: the offer of member p; a connection is
\* created for p when none is stored
LcHandleOffer(p) ==
    /\ lcCall.id # 0
    /\ p \in lcCall.participants
    /\ lcConnections' = lcConnections \cup {p}
    /\ LcRan("offer", p)
    /\ UNCHANGED <<lcCall, lcPending, lcParticipants, lcTimers, lcReplies, lcInvited, lcStarts>>
    /\ UNCHANGED <<electVars, msgVars, callVars, chatVars, rmVars, liveVars, slotVars, tblVars, dispVars, idVars, sigVars>>

\* the ontrack handler of the connection to p: handleParticipantStream
LcParticipantStream(p) ==
    /\ p \in lcConnections
    /\ p \notin lcParticipants
    /\ lcParticipants' = lcParticipants \cup {p}
    /\ LcRan("stream", p)
    /\ UNCHANGED <<lcCall, lcPending, lcConnections, lcTimers, lcReplies, lcInvited, lcStarts>>
    /\ UNCHANGED <<electVars, msgVars, callVars, chatVars, rmVars, liveVars, slotVars, tblVars, dispVars, idVars, sigVars>>

\* GroupCallHandler.handleParticipantJoined about peer p
LcParticipantJoined(p) ==
    /\ lcCall.id # 0
    /\ lcCall' = [lcCall EXCEPT !.participants = @ \cup {p}]
    /\ lcConnections' = LcConnectIfNeeded(p)
    /\ LcRan("joined", p)
    /\ UNCHANGED <<lcPending, lcParticipants, lcTimers, lcReplies, lcInvited, lcStarts>>
    /\ UNCHANGED <<electVars, msgVars, callVars, chatVars, rmVars, liveVars, slotVars, tblVars, dispVars, idVars, sigVars>>

\* GroupCallHandler.removeParticipant
removeParticipant(p) ==
    /\ lcConnections' = lcConnections \ {p}
    /\ lcParticipants' = lcParticipants \ {p}
    /\ lcTimers' = IF lcParticipants' = {} /\ lcCall.id # 0
                   THEN lcTimers \cup {[kind |-> "end", call |-> lcCall.id]}
                   ELSE lcTimers
    /\ UNCHANGED lcCall

\* GroupCallHandler.handleParticipantLeft: member p left the current call
LcParticipantLeft(p) ==
    /\ lcCall.id # 0
    /\ p \in lcCall.participants
    /\ removeParticipant(p)
    /\ LcRan("left", p)
    /\ UNCHANGED <<lcPending, lcReplies, lcInvited, lcStarts>>
    /\ UNCHANGED <<electVars, msgVars, callVars, chatVars, rmVars, liveVars, slotVars, tblVars, dispVars, idVars, sigVars>>

\* GroupCallHandler.handleGroupCallEnd: a member ended the current call
LcHandleGroupCallEnd(p) ==
    /\ lcCall.id # 0
    /\ p \in lcCall.participants
    /\ lcTimers' = lcTimers \cup {[kind |-> "cleanup", call |-> lcCall.id]}
    /\ LcRan("end", p)
    /\ UNCHANGED <<lcCall, lcPending, lcConnections, lcParticipants, lcReplies, lcInvited, lcStarts>>
    /\ UNCHANGED <<electVars, msgVars, callVars, chatVars, rmVars, liveVars, slotVars, tblVars, dispVars, idVars, sigVars>>

\* the user presses the end-call button: endGroupCall
LcUserEnds ==
    /\ lcCall.id # 0
    /\ LcEndGroupCall
    /\ LcRan("hangup", 0)
    /\ UNCHANGED <<lcPending, lcTimers, lcReplies, lcInvited, lcStarts>>
    /\ UNCHANGED <<electVars, msgVars, callVars, chatVars, rmVars, liveVars, slotVars, tblVars, dispVars, idVars, sigVars>>

\* a timer fires: the 30 s response timer of startGroupCall, the 2 s timer before
\* endGroupCall, or the 1 s timer before cleanup
LcTimerFires(t) ==
    /\ t \in lcTimers
    /\ IF t.kind = "response"
       THEN /\ lcTimers' = IF lcParticipants = {}
                           THEN (lcTimers \ {t}) \cup {[kind |-> "end", call |-> t.call]}
                           ELSE lcTimers \ {t}
            /\ UNCHANGED <<lcCall, lcConnections, lcParticipants>>
       ELSE /\ lcTimers' = lcTimers \ {t}
            /\ IF t.kind = "end" THEN LcEndGroupCall ELSE LcCleanup
    /\ LcRan("timer", 0)
    /\ UNCHANGED <<lcPending, lcReplies, lcInvited, lcStarts>>
    /\ UNCHANGED <<electVars, msgVars, callVars, chatVars, rmVars, liveVars, slotVars, tblVars, dispVars, idVars, sigVars>>

LcCallIds == (1..MaxStarts) \cup {RemoteCall(p) : p \in RmPeers}

LcOps ==
    [kind : {"start", "accept"}, id : LcCallIds, from : RmPeers \cup {RmSelf},
     members : SUBSET (RmPeers \cup {RmSelf})]

LcAllTimers == [kind : {"response", "end", "cleanup"}, call : LcCallIds]

LifeNext ==
    \/ \E selected \in SUBSET RmPeers : LcStartGroupCall(selected)
    \/ \E from \in RmPeers : \E members \in SUBSET (RmPeers \cup {RmSelf}) :
          LcHandleInvite(from, members)
    \/ \E op \in LcOps : \E granted \in BOOLEAN : LcMediaSettles(op, granted)
    \/ \E p \in RmPeers : LcHandleAccept(p)
    \/ \E p \in RmPeers : LcHandleReject(p)
    \/ \E p \in RmPeers : LcHandleOffer(p)
    \/ \E p \in RmPeers : LcParticipantStream(p)
    \/ \E p \in RmPeers : LcParticipantJoined(p)
    \/ \E p \in RmPeers : LcParticipantLeft(p)
    \/ \E p \in RmPeers : LcHandleGroupCallEnd(p)
    \/ LcUserEnds
    \/ \E t \in LcAllTimers : LcTimerFires(t)

SpecLife == LifeInit /\ [][LifeNext]_vars

\* C33 as stated: after a participant-left event for member p of the current call
\* has been processed, p is not in the call's participant set, the call connection
\* to p is closed and removed and the others are as they were, and the teardown of
\* the call is set off only if no member other than the participant itself is left.
ParticipantLeftRemovesOnlyThatPeer ==
    [][lcLast'.op = "left"
          => LET p == lcLast'.peer
             IN  /\ p \notin lcCall'.participants
                 /\ lcConnections' = lcConnections \ {p}
                 /\ lcCall'.id = lcCall.id
                 /\ lcTimers' # lcTimers
                       => lcCall'.participants \ {RmSelf} = {}]_vars

\* C36 as stated: a timer that fires when the call it was set under is no longer
\* the current call leaves the current call, its connections and its participants
\* as they are.
TimerEndsOnlyItsOwnCall ==
    [][\A t \in lcTimers \ lcTimers' :
          (lcCall.id # 0 /\ t.call # lcCall.id)
             => UNCHANGED <<lcCall, lcConnections, lcParticipants>>]_vars

\* C38 as stated: a start request or an accepted invite is taken up only while no
\* call is recorded and no earlier start or accept is waiting for its media; an
\* invite processed in that window is answered with a reject.
OneAdoptionAtATime ==
    [][/\ lcPending' \ lcPending # {} => (lcCall.id = 0 /\ lcPending = {})
       /\ (lcInvited' # lcInvited /\ (lcCall.id # 0 \/ lcPending # {}))
             => \E r \in lcReplies' \ lcReplies : ~r.accepted]_vars

\* C35 as stated: when the close event of a data channel that was closed with its
\* retired connection is delivered, the connection and the channel registered for
\* the peer stay as they are and no disconnect is reported for the peer.
RetiredSessionEventIgnored ==
    [][\A u \in ChatUsers :
          (closeEvt[u] /\ ~closeEvt'[u] /\ HasPc(u))
             => /\ peers'[u] = peers[u]
                /\ dataChannels'[u] = dataChannels[u]
                /\ discCalls'[u] = discCalls[u]]_vars

\* C39 as stated: a message whose sendMessage reported failure is never stored at the
\* relay and never handed to the message handler of any participant.
FailedSendNeverDelivered ==
    \A id \in MsgIds :
        ~sent[id].ok =>
            /\ ~OnRelay(id)
            /\ \A c \in Clients : recv[c][id].calls = 0

====
